---------------------------- MODULE Spec2Model ----------------------------
(***************************************************************************)
(* Family_Geneology: the family-tree store (src/src/hooks/useFamilyTree.ts) *)
(* and the relationship graph library (src/unnamed/part_002, lines 618 on, *)
(* imported by the hook as '@/lib/relationshipGraph').                      *)
(*                                                                         *)
(* Conventions of the model:                                               *)
(*  - person ids are opaque string tokens;                                 *)
(*  - a confidence is kept in hundredths (1.0 is 100, 0.95 is 95), because *)
(*    every confidence the code produces is a multiple of 0.05;            *)
(*  - the random `id` of a relationship record (rel_<time>_<random>) is    *)
(*    left out of the record; it is read only to build the `id` of a       *)
(*    validation finding, which is left out too, with the finding's        *)
(*    message and suggestedAction texts;                                   *)
(*  - a date is its day number: the validator reads dates only through     *)
(*    differences of getTime(), and 1000*60*60*24 ms are one day;          *)
(*  - a JavaScript object used as an ordered map (the graph, a Map) is a   *)
(*    sequence of keys in insertion order plus the values, so that         *)
(*    Object.entries / Object.keys / Map.forEach orders are the code's.    *)
(***************************************************************************)
EXTENDS Integers, Sequences, FiniteSets, TLC

VARIABLES people, relationships, rootPersonId, validationErrors, query, paths,
          labelled, relatives

vars == <<people, relationships, rootPersonId, validationErrors, query, paths,
          labelled, relatives>>

(***************************************************************************)
(* Types of src/types/family (declared in the imports of both files).      *)
(***************************************************************************)
RelationshipTypes ==
    {"parent", "child", "spouse", "sibling", "grandparent", "grandchild",
     "aunt", "uncle", "niece", "nephew", "cousin", "step-parent",
     "step-child", "adopted-parent", "adopted-child", "in-law"}

Null == "null"

\* 1.0 in hundredths
FullConfidence == 100

(***************************************************************************)
(* Generic sequence helper; Array.prototype.filter is SelectSeq.            *)
(***************************************************************************)
Range(s) == {s[i] : i \in DOMAIN s}

(***************************************************************************)
(* relationshipGraph library: reverse table and graph builder.             *)
(***************************************************************************)
\* the table with the niece and nephew rows exchanged
getReverseRelationshipCrossed(relationshipType) ==
    CASE relationshipType = "parent" -> "child"
      [] relationshipType = "child" -> "parent"
      [] relationshipType = "spouse" -> "spouse"
      [] relationshipType = "sibling" -> "sibling"
      [] relationshipType = "grandparent" -> "grandchild"
      [] relationshipType = "grandchild" -> "grandparent"
      [] relationshipType = "aunt" -> "niece"
      [] relationshipType = "uncle" -> "nephew"
      [] relationshipType = "niece" -> "uncle"
      [] relationshipType = "nephew" -> "aunt"
      [] relationshipType = "cousin" -> "cousin"
      [] relationshipType = "step-parent" -> "step-child"
      [] relationshipType = "step-child" -> "step-parent"
      [] relationshipType = "adopted-parent" -> "adopted-child"
      [] relationshipType = "adopted-child" -> "adopted-parent"
      [] relationshipType = "in-law" -> "in-law"
      [] OTHER -> Null

getReverseRelationship(relationshipType) ==
    CASE relationshipType = "parent" -> "child"
      [] relationshipType = "child" -> "parent"
      [] relationshipType = "spouse" -> "spouse"
      [] relationshipType = "sibling" -> "sibling"
      [] relationshipType = "grandparent" -> "grandchild"
      [] relationshipType = "grandchild" -> "grandparent"
      [] relationshipType = "aunt" -> "niece"
      [] relationshipType = "uncle" -> "nephew"
      [] relationshipType = "niece" -> "aunt"
      [] relationshipType = "nephew" -> "uncle"
      [] relationshipType = "cousin" -> "cousin"
      [] relationshipType = "step-parent" -> "step-child"
      [] relationshipType = "step-child" -> "step-parent"
      [] relationshipType = "adopted-parent" -> "adopted-child"
      [] relationshipType = "adopted-child" -> "adopted-parent"
      [] relationshipType = "in-law" -> "in-law"
      [] OTHER -> Null

\* A RelationshipGraph: order is Object.keys(graph); nbrs[k] is
\* Object.entries(graph[k]) as a sequence of [id, type] in insertion order.
EmptyGraph == [order |-> <<>>, nbrs |-> <<>>]

GraphKeys(graph) == Range(graph.order)

\* graph[k] || {}
Neighbors(graph, k) == IF k \in GraphKeys(graph) THEN graph.nbrs[k] ELSE <<>>

\* graph[a][b], Null when a is no key or has no entry for b
EdgeType(graph, a, b) ==
    LET n == Neighbors(graph, a)
        hit == {i \in DOMAIN n : n[i].id = b}
    IN IF hit = {} THEN Null ELSE n[CHOOSE i \in hit : TRUE].type

\* if (!graph[k]) graph[k] = {}
EnsureKey(graph, k) ==
    IF k \in GraphKeys(graph) THEN graph
    ELSE [order |-> Append(graph.order, k),
          nbrs  |-> [x \in GraphKeys(graph) \cup {k} |->
                        IF x = k THEN <<>> ELSE graph.nbrs[x]]]

\* graph[a][b] = t : an existing property keeps its place, a new one is appended
SetEdge(graph, a, b, t) ==
    LET n == graph.nbrs[a]
        hit == {i \in DOMAIN n : n[i].id = b}
        n2 == IF hit = {} THEN Append(n, [id |-> b, type |-> t])
              ELSE [i \in DOMAIN n |-> IF i \in hit THEN [id |-> b, type |-> t] ELSE n[i]]
    IN [graph EXCEPT !.nbrs[a] = n2]

\* the body of relationships.forEach in buildRelationshipGraph
AddRelationshipToGraph(graph, relationship) ==
    LET g1 == EnsureKey(EnsureKey(graph, relationship.personId), relationship.relatedPersonId)
        g2 == SetEdge(g1, relationship.personId, relationship.relatedPersonId,
                      relationship.relationshipType)
        reverseType == getReverseRelationship(relationship.relationshipType)
    IN IF reverseType # Null
       THEN SetEdge(g2, relationship.relatedPersonId, relationship.personId, reverseType)
       ELSE g2

\* people.forEach(person => graph[person.id] = {})
RECURSIVE InitGraphPeople(_, _)
InitGraphPeople(graph, ps) ==
    IF ps = <<>> THEN graph
    ELSE LET k == Head(ps).id
             g == IF k \in GraphKeys(graph)
                  THEN [graph EXCEPT !.nbrs[k] = <<>>]
                  ELSE EnsureKey(graph, k)
         IN InitGraphPeople(g, Tail(ps))

RECURSIVE AddGraphRelationships(_, _)
AddGraphRelationships(graph, rels) ==
    IF rels = <<>> THEN graph
    ELSE LET g == AddRelationshipToGraph(graph, Head(rels))
         \* the test has TLC evaluate g before the next record, as forEach does;
         \* a graph that holds a relationship has keys
         IN IF g.order = <<>> THEN g ELSE AddGraphRelationships(g, Tail(rels))

buildRelationshipGraph(ps, rels) ==
    AddGraphRelationships(InitGraphPeople(EmptyGraph, ps), rels)

\* useMemo(() => buildRelationshipGraph(state.people, state.relationships))
relationshipGraph == buildRelationshipGraph(people, relationships)

(***************************************************************************)
(* relationshipGraph library: the path finder.                             *)
(***************************************************************************)
MinConfidence == 50

ConfidenceStep == 10

\* the decay counted from the first hop instead of the second
calculatePathConfidenceOffByOne(segments) ==
    IF Len(segments) = 0 THEN FullConfidence
    ELSE LET c == FullConfidence - Len(segments) * ConfidenceStep
         IN IF c > MinConfidence THEN c ELSE MinConfidence

calculatePathConfidence(segments) ==
    IF Len(segments) = 0 THEN FullConfidence
    ELSE LET c == FullConfidence - (Len(segments) - 1) * ConfidenceStep
         IN IF c > MinConfidence THEN c ELSE MinConfidence

PathSegment(personId, relationshipType) ==
    [personId |-> personId, relationshipType |-> relationshipType,
     direction |-> "forward"]

RelationshipPath(segments, distance, confidence) ==
    [segments |-> segments,
     path |-> [i \in DOMAIN segments |-> segments[i].relationshipType],
     distance |-> distance,
     confidence |-> confidence]

\* the comparator of paths.sort: a negative, zero or positive number
ComparePaths(a, b) ==
    IF a.distance # b.distance THEN a.distance - b.distance
    ELSE b.confidence - a.confidence

\* Array.prototype.sort is stable: x goes after every element not greater than it
RECURSIVE InsertPath(_, _)
InsertPath(sorted, x) ==
    IF sorted = <<>> THEN <<x>>
    ELSE IF ComparePaths(Head(sorted), x) <= 0
         THEN <<Head(sorted)>> \o InsertPath(Tail(sorted), x)
         ELSE <<x>> \o sorted

RECURSIVE SortPaths(_)
SortPaths(ps) ==
    IF ps = <<>> THEN <<>>
    ELSE InsertPath(SortPaths(SubSeq(ps, 1, Len(ps) - 1)), ps[Len(ps)])

\* the queue entries pushed for the neighbours of a dequeued person
Expand(graph, item, visited) ==
    LET open == SelectSeq(Neighbors(graph, item.personId),
                          LAMBDA n : n.id \notin visited)
    IN [i \in DOMAIN open |->
          [personId |-> open[i].id,
           path |-> Append(item.path, PathSegment(open[i].id, open[i].type)),
           distance |-> item.distance + 1]]

\* the loop without its `distance > maxDistance` test
RECURSIVE SearchLoopUnbounded(_, _, _, _, _, _)
SearchLoopUnbounded(graph, toPersonId, maxDistance, queue, visited, found) ==
    IF queue = <<>> THEN found
    ELSE LET item == Head(queue)
             rest == Tail(queue)
         IN IF item.personId = toPersonId
            THEN SearchLoopUnbounded(graph, toPersonId, maxDistance, rest, visited,
                            Append(found, RelationshipPath(item.path, item.distance,
                                              calculatePathConfidence(item.path))))
            ELSE IF item.personId \in visited
            THEN SearchLoopUnbounded(graph, toPersonId, maxDistance, rest, visited, found)
            ELSE LET seen == visited \cup {item.personId}
                 IN SearchLoopUnbounded(graph, toPersonId, maxDistance,
                               rest \o Expand(graph, item, seen), seen, found)

\* the loop without visited.add(personId)
RECURSIVE SearchLoopUnmarked(_, _, _, _, _, _)
SearchLoopUnmarked(graph, toPersonId, maxDistance, queue, visited, found) ==
    IF queue = <<>> THEN found
    ELSE LET item == Head(queue)
             rest == Tail(queue)
         IN IF item.distance > maxDistance
            THEN SearchLoopUnmarked(graph, toPersonId, maxDistance, rest, visited, found)
            ELSE IF item.personId = toPersonId
            THEN SearchLoopUnmarked(graph, toPersonId, maxDistance, rest, visited,
                            Append(found, RelationshipPath(item.path, item.distance,
                                              calculatePathConfidence(item.path))))
            ELSE IF item.personId \in visited
            THEN SearchLoopUnmarked(graph, toPersonId, maxDistance, rest, visited, found)
            ELSE SearchLoopUnmarked(graph, toPersonId, maxDistance,
                                    rest \o Expand(graph, item, visited), visited, found)

\* the loop with the neighbours of a dequeued person put in front of the queue
RECURSIVE SearchLoopDepthFirst(_, _, _, _, _, _)
SearchLoopDepthFirst(graph, toPersonId, maxDistance, queue, visited, found) ==
    IF queue = <<>> THEN found
    ELSE LET item == Head(queue)
             rest == Tail(queue)
         IN IF item.distance > maxDistance
            THEN SearchLoopDepthFirst(graph, toPersonId, maxDistance, rest, visited, found)
            ELSE IF item.personId = toPersonId
            THEN SearchLoopDepthFirst(graph, toPersonId, maxDistance, rest, visited,
                            Append(found, RelationshipPath(item.path, item.distance,
                                              calculatePathConfidence(item.path))))
            ELSE IF item.personId \in visited
            THEN SearchLoopDepthFirst(graph, toPersonId, maxDistance, rest, visited, found)
            ELSE LET seen == visited \cup {item.personId}
                 IN SearchLoopDepthFirst(graph, toPersonId, maxDistance,
                               Expand(graph, item, seen) \o rest, seen, found)

\* the while loop of findRelationshipPaths
RECURSIVE SearchLoop(_, _, _, _, _, _)
SearchLoop(graph, toPersonId, maxDistance, queue, visited, found) ==
    IF queue = <<>> THEN found
    ELSE LET item == Head(queue)
             rest == Tail(queue)
         IN IF item.distance > maxDistance
            THEN SearchLoop(graph, toPersonId, maxDistance, rest, visited, found)
            ELSE IF item.personId = toPersonId
            THEN SearchLoop(graph, toPersonId, maxDistance, rest, visited,
                            Append(found, RelationshipPath(item.path, item.distance,
                                              calculatePathConfidence(item.path))))
            ELSE IF item.personId \in visited
            THEN SearchLoop(graph, toPersonId, maxDistance, rest, visited, found)
            ELSE LET seen == visited \cup {item.personId}
                 IN SearchLoop(graph, toPersonId, maxDistance,
                               rest \o Expand(graph, item, seen), seen, found)

\* the people the while loop of findRelationshipPaths marks visited and
\* expands, in the order of visited.add(personId)
RECURSIVE ExpandedLoop(_, _, _, _, _, _)
ExpandedLoop(graph, toPersonId, maxDistance, queue, visited, expanded) ==
    IF queue = <<>> THEN expanded
    ELSE LET item == Head(queue)
             rest == Tail(queue)
         IN IF \/ item.distance > maxDistance
               \/ item.personId = toPersonId
               \/ item.personId \in visited
            THEN ExpandedLoop(graph, toPersonId, maxDistance, rest, visited, expanded)
            ELSE LET seen == visited \cup {item.personId}
                 IN ExpandedLoop(graph, toPersonId, maxDistance,
                                 rest \o Expand(graph, item, seen), seen,
                                 Append(expanded, item.personId))

\* the self case returns before the loop
ExpandedBy(graph, fromPersonId, toPersonId, maxDistance) ==
    IF fromPersonId = toPersonId
    THEN <<>>
    ELSE ExpandedLoop(graph, toPersonId, maxDistance,
                      <<[personId |-> fromPersonId, path |-> <<>>, distance |-> 0]>>,
                      {}, <<>>)

\* the search with the self case answered by "no path"
findRelationshipPathsNoSelf(graph, fromPersonId, toPersonId, maxDistance) ==
    IF fromPersonId = toPersonId
    THEN <<>>
    ELSE SortPaths(SearchLoop(graph, toPersonId, maxDistance,
                              <<[personId |-> fromPersonId, path |-> <<>>, distance |-> 0]>>,
                              {}, <<>>))

findRelationshipPaths(graph, fromPersonId, toPersonId, maxDistance) ==
    IF fromPersonId = toPersonId
    THEN <<RelationshipPath(<<>>, 0, FullConfidence)>>
    ELSE SortPaths(SearchLoop(graph, toPersonId, maxDistance,
                              <<[personId |-> fromPersonId, path |-> <<>>, distance |-> 0]>>,
                              {}, <<>>))

(***************************************************************************)
(* The store: reciprocal table and addRelationship.                        *)
(***************************************************************************)
getReciprocalRelationship(relationshipType) ==
    CASE relationshipType = "parent" -> "child"
      [] relationshipType = "child" -> "parent"
      [] relationshipType = "spouse" -> "spouse"
      [] relationshipType = "sibling" -> "sibling"
      [] relationshipType = "grandparent" -> "grandchild"
      [] relationshipType = "grandchild" -> "grandparent"
      [] relationshipType = "aunt" -> "niece"
      [] relationshipType = "uncle" -> "nephew"
      [] relationshipType = "niece" -> "aunt"
      [] relationshipType = "nephew" -> "uncle"
      [] relationshipType = "cousin" -> "cousin"
      [] relationshipType = "step-parent" -> "step-child"
      [] relationshipType = "step-child" -> "step-parent"
      [] relationshipType = "adopted-parent" -> "adopted-child"
      [] relationshipType = "adopted-child" -> "adopted-parent"
      [] relationshipType = "in-law" -> "in-law"
      [] OTHER -> Null

Relationship(personId, relatedPersonId, relationshipType, isInferred, confidence) ==
    [personId |-> personId, relatedPersonId |-> relatedPersonId,
     relationshipType |-> relationshipType, isInferred |-> isInferred,
     confidence |-> confidence]

\* the state updater of addRelationship (isInferred defaults to false)
AddedRelationships(rels, personId, relatedPersonId, relationshipType, isInferred) ==
    LET conf == IF isInferred THEN 80 ELSE FullConfidence
        withNew == Append(rels, Relationship(personId, relatedPersonId,
                                             relationshipType, isInferred, conf))
        reciprocalType == getReciprocalRelationship(relationshipType)
    IN IF reciprocalType # Null
       THEN Append(withNew, Relationship(relatedPersonId, personId,
                                         reciprocalType, isInferred, conf))
       ELSE withNew

NoQuery == [fromId |-> Null, toId |-> Null, maxDistance |-> 0]

\* no label asked for yet: the labeller's input and its answer
NoLabel == [path |-> <<>>, gender |-> Null, label |-> Null]

\* no relative query asked yet: the query's inputs and its answer
NoRelatives == [personId |-> Null, filter |-> Null, result |-> <<>>]

\* addRelationship(personId, relatedPersonId, relationshipType). query and
\* paths hold the last call of findRelationshipPath and what it returned for
\* the graph of the state it was called in, labelled and relatives the last
\* call of the labeller and of a relative query; a new state has no call yet.
addRelationship(personId, relatedPersonId, relationshipType) ==
    /\ relationships' = AddedRelationships(relationships, personId, relatedPersonId,
                                           relationshipType, FALSE)
    /\ query' = NoQuery
    /\ paths' = <<>>
    /\ labelled' = NoLabel
    /\ relatives' = NoRelatives
    /\ UNCHANGED <<people, rootPersonId, validationErrors>>

\* getInitialState with nothing stored
EmptyStore ==
    /\ people = <<>>
    /\ relationships = <<>>
    /\ rootPersonId = Null
    /\ validationErrors = <<>>
    /\ query = NoQuery
    /\ paths = <<>>
    /\ labelled = NoLabel
    /\ relatives = NoRelatives

(***************************************************************************)
(* SpecGraph: any sequence of addRelationship calls, any ids (the two ids  *)
(* may be the same person), any of the 16 types.                           *)
(***************************************************************************)
GraphIds == {"a", "b"}

MaxGraphAdds == 2

GraphAdd ==
    /\ Len(relationships) < 2 * MaxGraphAdds
    /\ \E p \in GraphIds, r \in GraphIds, t \in RelationshipTypes :
          addRelationship(p, r, t)

InitGraph == EmptyStore

NextGraph == GraphAdd

SpecGraph == InitGraph /\ [][NextGraph]_vars

\* The reverse-type table of the specification (section 4.1), pair by pair.
ReversePairs ==
    {<<"parent", "child">>, <<"child", "parent">>, <<"spouse", "spouse">>,
     <<"sibling", "sibling">>, <<"grandparent", "grandchild">>,
     <<"grandchild", "grandparent">>, <<"aunt", "niece">>, <<"niece", "aunt">>,
     <<"uncle", "nephew">>, <<"nephew", "uncle">>, <<"cousin", "cousin">>,
     <<"step-parent", "step-child">>, <<"step-child", "step-parent">>,
     <<"adopted-parent", "adopted-child">>, <<"adopted-child", "adopted-parent">>,
     <<"in-law", "in-law">>}

ReciprocalAt(graph, A, B) ==
    EdgeType(graph, A, B) # Null =>
        <<EdgeType(graph, A, B), EdgeType(graph, B, A)>> \in ReversePairs

\* C1 as stated: after any addRelationship calls the graph has, for every pair
\* of ids A and B (A = B included), graph[B][A] = reverse(graph[A][B]).
C1_ReciprocityAllPairs ==
    \A A \in GraphKeys(relationshipGraph), B \in GraphKeys(relationshipGraph) :
        ReciprocalAt(relationshipGraph, A, B)

\* C1 amended: after any addRelationship calls the graph has, for every pair
\* of distinct ids A and B, graph[B][A] = reverse(graph[A][B]).
C1_ReciprocityDistinct ==
    \A A \in GraphKeys(relationshipGraph), B \in GraphKeys(relationshipGraph) :
        A # B => ReciprocalAt(relationshipGraph, A, B)

\* two calls on the same pair: the later one has overwritten the earlier edge
C1_Witness ==
    /\ Len(relationships) = 4
    /\ relationships[1].personId = "a" /\ relationships[1].relatedPersonId = "b"
    /\ relationships[1].relationshipType = "parent"
    /\ relationships[3].personId = "b" /\ relationships[3].relatedPersonId = "a"
    /\ relationships[3].relationshipType = "aunt"
    /\ EdgeType(relationshipGraph, "a", "b") = "niece"
    /\ EdgeType(relationshipGraph, "b", "a") = "aunt"

(***************************************************************************)
(* The store: people, and the inference engine (inferRelationships).       *)
(***************************************************************************)
\* birthDate and deathDate: Null when absent, else a date string
Person(id, gender, birthDate, isDeceased, deathDate) ==
    [id |-> id, gender |-> gender, birthDate |-> birthDate,
     isDeceased |-> isDeceased, deathDate |-> deathDate]

\* people.find(p => p.id === id) is defined (truthy)
HasPerson(ps, id) == \E i \in DOMAIN ps : ps[i].id = id

\* people.find(p => p.id === id) when defined: the first match
FindPerson(ps, id) ==
    LET hit == {i \in DOMAIN ps : ps[i].id = id}
    IN ps[CHOOSE i \in hit : \A j \in hit : i <= j]

RECURSIVE Concat(_)
Concat(seqs) ==
    IF seqs = <<>> THEN <<>> ELSE Head(seqs) \o Concat(Tail(seqs))

relationshipExists(rels, person1, person2, type) ==
    \E i \in DOMAIN rels :
        \/ /\ rels[i].personId = person1
           /\ rels[i].relatedPersonId = person2
           /\ rels[i].relationshipType = type
        \/ /\ rels[i].personId = person2
           /\ rels[i].relatedPersonId = person1
           /\ rels[i].relationshipType = type

\* the helper without its existence checks
addRelationshipUnchecked(rels, person1, person2, type, confidence) ==
    LET pushed == Append(rels, Relationship(person1, person2, type, TRUE, confidence))
        reciprocalType == getReciprocalRelationship(type)
    IN IF reciprocalType # Null
       THEN Append(pushed, Relationship(person2, person1, reciprocalType,
                                        TRUE, confidence))
       ELSE pushed

\* the helper with the reciprocal stored as addRelationship stores one:
\* declared, at full confidence
addRelationshipDeclaredReciprocal(rels, person1, person2, type, confidence) ==
    IF ~relationshipExists(rels, person1, person2, type)
    THEN LET pushed == Append(rels, Relationship(person1, person2, type, TRUE, confidence))
             reciprocalType == getReciprocalRelationship(type)
         IN IF reciprocalType # Null
               /\ ~relationshipExists(pushed, person2, person1, reciprocalType)
            THEN Append(pushed, Relationship(person2, person1, reciprocalType,
                                             FALSE, FullConfidence))
            ELSE pushed
    ELSE rels

\* newRelationships after addRelationshipIfNotExists(person1, person2, type, confidence)
addRelationshipIfNotExists(rels, person1, person2, type, confidence) ==
    IF ~relationshipExists(rels, person1, person2, type)
    THEN LET pushed == Append(rels, Relationship(person1, person2, type, TRUE, confidence))
             reciprocalType == getReciprocalRelationship(type)
         IN IF reciprocalType # Null
               /\ ~relationshipExists(pushed, person2, person1, reciprocalType)
            THEN Append(pushed, Relationship(person2, person1, reciprocalType,
                                             TRUE, confidence))
            ELSE pushed
    ELSE rels

\* one call of addRelationshipIfNotExists, as its arguments
Call(person1, person2, type, confidence) ==
    [person1 |-> person1, person2 |-> person2, type |-> type,
     confidence |-> confidence]

\* the calls made in order, each on the list the earlier ones left
RECURSIVE ApplyCalls(_, _)
ApplyCalls(rels, calls) ==
    IF calls = <<>> THEN rels
    ELSE ApplyCalls(addRelationshipIfNotExists(rels, Head(calls).person1,
                        Head(calls).person2, Head(calls).type, Head(calls).confidence),
                    Tail(calls))

\* childrenByParent: the Map as its entries [parent, children] in insertion order
RECURSIVE GroupChildren(_, _)
GroupChildren(entries, parentChildRels) ==
    IF parentChildRels = <<>> THEN entries
    ELSE LET rel == Head(parentChildRels)
             hit == {i \in DOMAIN entries : entries[i].parent = rel.personId}
             next == IF hit = {}
                     THEN Append(entries, [parent |-> rel.personId,
                                           children |-> <<rel.relatedPersonId>>])
                     ELSE [i \in DOMAIN entries |->
                             IF i \in hit
                             THEN [entries[i] EXCEPT
                                     !.children = Append(@, rel.relatedPersonId)]
                             ELSE entries[i]]
         IN GroupChildren(next, Tail(parentChildRels))

SiblingConfidence == 95

GrandparentConfidence == 90

AuntUncleConfidence == 85

CousinConfidence == 80

InLawConfidence == 70

\* 1. the calls of the loops over i < j for one parent's children
RECURSIVE SiblingCalls(_, _)
SiblingCalls(children, i) ==
    IF i > Len(children) THEN <<>>
    ELSE [k \in 1..(Len(children) - i) |->
            Call(children[i], children[i + k], "sibling", SiblingConfidence)]
         \o SiblingCalls(children, i + 1)

InferSiblings(rels, childrenByParent) ==
    ApplyCalls(rels, Concat([e \in DOMAIN childrenByParent |->
                               SiblingCalls(childrenByParent[e].children, 1)]))

\* 2. the calls for one parent: each grandparent record, each child
GrandparentCalls(entry, parentChildRels) ==
    LET grandparentRels == SelectSeq(parentChildRels,
                               LAMBDA rel : rel.relatedPersonId = entry.parent)
    IN Concat([g \in DOMAIN grandparentRels |->
                 [c \in DOMAIN entry.children |->
                    Call(grandparentRels[g].personId, entry.children[c],
                         "grandparent", GrandparentConfidence)]])

InferGrandparents(rels, childrenByParent, parentChildRels) ==
    ApplyCalls(rels, Concat([e \in DOMAIN childrenByParent |->
                               GrandparentCalls(childrenByParent[e], parentChildRels)]))

\* 3. the calls for one parent, from the sibling records of the list so far
AuntUncleCalls(rels, ps, entry) ==
    LET parentSiblingRels ==
            SelectSeq(rels, LAMBDA rel :
                /\ rel.relationshipType = "sibling"
                /\ (rel.personId = entry.parent \/ rel.relatedPersonId = entry.parent))
        auntUncleId(rel) == IF rel.personId = entry.parent
                            THEN rel.relatedPersonId ELSE rel.personId
        callsFor(rel) ==
            LET auntUncle == FindPerson(ps, auntUncleId(rel))
            IN IF HasPerson(ps, auntUncleId(rel))
               THEN [c \in DOMAIN entry.children |->
                       Call(auntUncleId(rel), entry.children[c],
                            IF auntUncle.gender = "female" THEN "aunt" ELSE "uncle",
                            AuntUncleConfidence)]
               ELSE <<>>
    IN Concat([r \in DOMAIN parentSiblingRels |-> callsFor(parentSiblingRels[r])])

RECURSIVE InferAuntsUncles(_, _, _)
InferAuntsUncles(rels, ps, entries) ==
    IF entries = <<>> THEN rels
    ELSE InferAuntsUncles(ApplyCalls(rels, AuntUncleCalls(rels, ps, Head(entries))),
                          ps, Tail(entries))

\* 4. the calls for one pair of parents, from the list so far
CousinCalls(rels, entry1, entry2) ==
    IF entry1.parent # entry2.parent
       /\ relationshipExists(rels, entry1.parent, entry2.parent, "sibling")
    THEN Concat([c1 \in DOMAIN entry1.children |->
                   [c2 \in DOMAIN entry2.children |->
                      Call(entry1.children[c1], entry2.children[c2],
                           "cousin", CousinConfidence)]])
    ELSE <<>>

RECURSIVE InferCousins(_, _)
InferCousins(rels, entryPairs) ==
    IF entryPairs = <<>> THEN rels
    ELSE InferCousins(ApplyCalls(rels, CousinCalls(rels, Head(entryPairs)[1],
                                                   Head(entryPairs)[2])),
                      Tail(entryPairs))

\* 5. the calls for one spouse record
InLawCalls(spouseRel, parentChildRels) ==
    LET spouse1 == spouseRel.personId
        spouse2 == spouseRel.relatedPersonId
        spouse1Parents == SelectSeq(parentChildRels,
                              LAMBDA rel : rel.relatedPersonId = spouse1)
        spouse2Parents == SelectSeq(parentChildRels,
                              LAMBDA rel : rel.relatedPersonId = spouse2)
    IN [i \in DOMAIN spouse1Parents |->
          Call(spouse1Parents[i].personId, spouse2, "in-law", InLawConfidence)]
       \o [i \in DOMAIN spouse2Parents |->
          Call(spouse2Parents[i].personId, spouse1, "in-law", InLawConfidence)]

InferInLaws(rels, spouseRels, parentChildRels) ==
    ApplyCalls(rels, Concat([s \in DOMAIN spouseRels |->
                               InLawCalls(spouseRels[s], parentChildRels)]))

\* the state updater with the sibling rule run after the aunt/uncle and the
\* cousin rules
InferredRelationshipsLateSiblings(ps, prevRelationships) ==
    LET parentChildRels == SelectSeq(prevRelationships,
                               LAMBDA rel : rel.relationshipType = "parent")
        childrenByParent == GroupChildren(<<>>, parentChildRels)
        entryPairs == Concat([e1 \in DOMAIN childrenByParent |->
                                [e2 \in DOMAIN childrenByParent |->
                                   <<childrenByParent[e1], childrenByParent[e2]>>]])
        spouseRels == SelectSeq(prevRelationships,
                          LAMBDA rel : rel.relationshipType = "spouse")
        after3 == InferAuntsUncles(prevRelationships, ps, childrenByParent)
        after4 == InferCousins(after3, entryPairs)
        after1 == InferSiblings(after4, childrenByParent)
        after2 == InferGrandparents(after1, childrenByParent, parentChildRels)
    IN InferInLaws(after2, spouseRels, parentChildRels)

\* the state updater of inferRelationships: prev.relationships -> newRelationships
InferredRelationships(ps, prevRelationships) ==
    LET parentChildRels == SelectSeq(prevRelationships,
                               LAMBDA rel : rel.relationshipType = "parent")
        childrenByParent == GroupChildren(<<>>, parentChildRels)
        entryPairs == Concat([e1 \in DOMAIN childrenByParent |->
                                [e2 \in DOMAIN childrenByParent |->
                                   <<childrenByParent[e1], childrenByParent[e2]>>]])
        spouseRels == SelectSeq(prevRelationships,
                          LAMBDA rel : rel.relationshipType = "spouse")
        after1 == InferSiblings(prevRelationships, childrenByParent)
        after2 == InferGrandparents(after1, childrenByParent, parentChildRels)
        after3 == InferAuntsUncles(after2, ps, childrenByParent)
        after4 == InferCousins(after3, entryPairs)
    IN InferInLaws(after4, spouseRels, parentChildRels)

inferRelationships ==
    /\ relationships' = InferredRelationships(people, relationships)
    /\ query' = NoQuery
    /\ paths' = <<>>
    /\ labelled' = NoLabel
    /\ relatives' = NoRelatives
    /\ UNCHANGED <<people, rootPersonId, validationErrors>>

(***************************************************************************)
(* The store: people.                                                      *)
(***************************************************************************)
\* addPerson(person): the new id, `person_<time>_<random>`, is any id not in use
addPerson(newId, gender, birthDate) ==
    /\ ~HasPerson(people, newId)
    /\ people' = Append(people, Person(newId, gender, birthDate, FALSE, Null))
    /\ query' = NoQuery
    /\ paths' = <<>>
    /\ labelled' = NoLabel
    /\ relatives' = NoRelatives
    /\ UNCHANGED <<relationships, rootPersonId, validationErrors>>

\* updatePerson(personId, { birthDate })
updatePerson(personId, birthDate) ==
    /\ people' = [i \in DOMAIN people |->
                    IF people[i].id = personId
                    THEN [people[i] EXCEPT !.birthDate = birthDate]
                    ELSE people[i]]
    /\ query' = NoQuery
    /\ paths' = <<>>
    /\ labelled' = NoLabel
    /\ relatives' = NoRelatives
    /\ UNCHANGED <<relationships, rootPersonId, validationErrors>>

\* deletePerson keeping a relationship unless both of its ends are the person
deletePersonBothEnds(personId) ==
    /\ people' = SelectSeq(people, LAMBDA person : person.id # personId)
    /\ relationships' = SelectSeq(relationships, LAMBDA rel :
                            rel.personId # personId \/ rel.relatedPersonId # personId)
    /\ rootPersonId' = IF rootPersonId = personId THEN Null ELSE rootPersonId
    /\ query' = NoQuery
    /\ paths' = <<>>
    /\ labelled' = NoLabel
    /\ relatives' = NoRelatives
    /\ UNCHANGED validationErrors

\* deletePerson(personId)
deletePerson(personId) ==
    /\ people' = SelectSeq(people, LAMBDA person : person.id # personId)
    /\ relationships' = SelectSeq(relationships, LAMBDA rel :
                            rel.personId # personId /\ rel.relatedPersonId # personId)
    /\ rootPersonId' = IF rootPersonId = personId THEN Null ELSE rootPersonId
    /\ query' = NoQuery
    /\ paths' = <<>>
    /\ labelled' = NoLabel
    /\ relatives' = NoRelatives
    /\ UNCHANGED validationErrors

\* setRootPerson(personId)
setRootPerson(personId) ==
    /\ rootPersonId' = personId
    /\ UNCHANGED <<people, relationships, validationErrors, query, paths,
                 labelled, relatives>>

\* setPeople(people)
setPeople(newPeople) ==
    /\ people' = newPeople
    /\ query' = NoQuery
    /\ paths' = <<>>
    /\ labelled' = NoLabel
    /\ relatives' = NoRelatives
    /\ UNCHANGED <<relationships, rootPersonId, validationErrors>>

(***************************************************************************)
(* The store: the consistency validator (validateRelationships).           *)
(***************************************************************************)
\* the date strings of the model that new Date() parses, with their day numbers
\* counted from 1950-01-01 (1952 and 1956 are leap years)
KnownDates ==
    [d \in {"1950-01-01", "1959-12-31", "1960-01-01", "1960-01-02", "2000-01-01"} |->
        CASE d = "1950-01-01" -> 0
          [] d = "1959-12-31" -> 3651
          [] d = "1960-01-01" -> 3652
          [] d = "1960-01-02" -> 3653
          [] d = "2000-01-01" -> 18262]

\* parseDate: <<>> for null, else the one-element sequence of the day number
parseDate(dateString) ==
    IF dateString = Null \/ dateString = "" THEN <<>>
    ELSE IF dateString \in DOMAIN KnownDates THEN <<KnownDates[dateString]>>
    ELSE <<>>

\* yearsDiff = days / 365.25, compared in quarter days
QuarterDaysPerYear == 1461

MinParentAgeYears == 10

MaxSpouseGapYears == 50

ValidationError(type, severity, affectedPersons) ==
    [type |-> type, severity |-> severity, affectedPersons |-> affectedPersons]

\* the walk without the records that name a person as their own parent
RECURSIVE checkCircularReferenceSkipSelf(_, _, _)
checkCircularReferenceSkipSelf(rels, personId, visited) ==
    IF personId \in visited THEN TRUE
    ELSE LET parentRels == SelectSeq(rels, LAMBDA rel :
                               /\ rel.relatedPersonId = personId
                               /\ rel.personId # personId
                               /\ rel.relationshipType = "parent")
         IN \E i \in DOMAIN parentRels :
               checkCircularReferenceSkipSelf(rels, parentRels[i].personId,
                                              visited \cup {personId})

\* the walk with one visited set shared by all branches instead of a copy per
\* branch: [hit, seen] of the walk from personId
RECURSIVE WalkShared(_, _, _)
RECURSIVE SomeShared(_, _, _)
WalkShared(rels, personId, visited) ==
    IF personId \in visited THEN [hit |-> TRUE, seen |-> visited]
    ELSE SomeShared(rels,
                    SelectSeq(rels, LAMBDA rel :
                        /\ rel.relatedPersonId = personId
                        /\ rel.relationshipType = "parent"),
                    visited \cup {personId})

SomeShared(rels, parentRels, visited) ==
    IF parentRels = <<>> THEN [hit |-> FALSE, seen |-> visited]
    ELSE LET r == WalkShared(rels, Head(parentRels).personId, visited)
         IN IF r.hit THEN r ELSE SomeShared(rels, Tail(parentRels), r.seen)

checkCircularReferenceShared(rels, personId, visited) ==
    WalkShared(rels, personId, visited).hit

\* 1. checkCircularReference(personId, visited) over state.relationships
RECURSIVE checkCircularReference(_, _, _)
checkCircularReference(rels, personId, visited) ==
    IF personId \in visited THEN TRUE
    ELSE LET parentRels == SelectSeq(rels, LAMBDA rel :
                               /\ rel.relatedPersonId = personId
                               /\ rel.relationshipType = "parent")
         IN \E i \in DOMAIN parentRels :
               checkCircularReference(rels, parentRels[i].personId,
                                      visited \cup {personId})

\* the nested calls of checkCircularReference, at most fuel deep, with
\* visited.add(personId) left out: [hit, finished]
RECURSIVE WalkCallsUnmarked(_, _, _, _)
RECURSIVE SomeCallsUnmarked(_, _, _, _)
WalkCallsUnmarked(rels, personId, visited, fuel) ==
    IF fuel = 0 THEN [hit |-> FALSE, finished |-> FALSE]
    ELSE IF personId \in visited THEN [hit |-> TRUE, finished |-> TRUE]
    ELSE SomeCallsUnmarked(rels,
                           SelectSeq(rels, LAMBDA rel :
                               /\ rel.relatedPersonId = personId
                               /\ rel.relationshipType = "parent"),
                           visited, fuel - 1)

SomeCallsUnmarked(rels, parentRels, visited, fuel) ==
    IF parentRels = <<>> THEN [hit |-> FALSE, finished |-> TRUE]
    ELSE LET r == WalkCallsUnmarked(rels, Head(parentRels).personId, visited, fuel)
         IN IF r.hit \/ ~r.finished THEN r
            ELSE SomeCallsUnmarked(rels, Tail(parentRels), visited, fuel)

\* the nested calls of checkCircularReference(personId, visited), followed at
\* most fuel calls deep: hit is the value returned, finished tells that no walk
\* was cut off at that depth. parentRels.some(...) stops at the first true.
RECURSIVE WalkCalls(_, _, _, _)
RECURSIVE SomeCalls(_, _, _, _)
WalkCalls(rels, personId, visited, fuel) ==
    IF fuel = 0 THEN [hit |-> FALSE, finished |-> FALSE]
    ELSE IF personId \in visited THEN [hit |-> TRUE, finished |-> TRUE]
    ELSE SomeCalls(rels,
                   SelectSeq(rels, LAMBDA rel :
                       /\ rel.relatedPersonId = personId
                       /\ rel.relationshipType = "parent"),
                   visited \cup {personId}, fuel - 1)

SomeCalls(rels, parentRels, visited, fuel) ==
    IF parentRels = <<>> THEN [hit |-> FALSE, finished |-> TRUE]
    ELSE LET r == WalkCalls(rels, Head(parentRels).personId, visited, fuel)
         IN IF r.hit \/ ~r.finished THEN r
            ELSE SomeCalls(rels, Tail(parentRels), visited, fuel)

CircularErrors(ps, rels) ==
    LET flagged == SelectSeq(ps, LAMBDA person :
                       checkCircularReference(rels, person.id, {}))
    IN [i \in DOMAIN flagged |->
          ValidationError("circular_reference", "error", <<flagged[i].id>>)]

\* the age checks of one relationship with equal birth dates taken for a conflict
AgeErrorsOfNonStrict(ps, relationship) ==
    IF relationship.relationshipType = "parent"
       /\ HasPerson(ps, relationship.personId)
       /\ HasPerson(ps, relationship.relatedPersonId)
    THEN LET parent == FindPerson(ps, relationship.personId)
             child == FindPerson(ps, relationship.relatedPersonId)
             parentBirth == parseDate(parent.birthDate)
             childBirth == parseDate(child.birthDate)
             both == parentBirth # <<>> /\ childBirth # <<>>
         IN (IF both /\ parentBirth[1] >= childBirth[1]
             THEN <<ValidationError("age_conflict", "error", <<parent.id, child.id>>)>>
             ELSE <<>>)
            \o
            (IF both /\ 4 * (childBirth[1] - parentBirth[1])
                          < MinParentAgeYears * QuarterDaysPerYear
             THEN <<ValidationError("logical_error", "warning", <<parent.id, child.id>>)>>
             ELSE <<>>)
    ELSE <<>>

\* 2. the findings of one relationship of the age checks
AgeErrorsOf(ps, relationship) ==
    IF relationship.relationshipType = "parent"
       /\ HasPerson(ps, relationship.personId)
       /\ HasPerson(ps, relationship.relatedPersonId)
    THEN LET parent == FindPerson(ps, relationship.personId)
             child == FindPerson(ps, relationship.relatedPersonId)
             parentBirth == parseDate(parent.birthDate)
             childBirth == parseDate(child.birthDate)
             both == parentBirth # <<>> /\ childBirth # <<>>
         IN (IF both /\ parentBirth[1] > childBirth[1]
             THEN <<ValidationError("age_conflict", "error", <<parent.id, child.id>>)>>
             ELSE <<>>)
            \o
            (IF both /\ 4 * (childBirth[1] - parentBirth[1])
                          < MinParentAgeYears * QuarterDaysPerYear
             THEN <<ValidationError("logical_error", "warning", <<parent.id, child.id>>)>>
             ELSE <<>>)
    ELSE <<>>

AgeErrors(ps, rels) == Concat([i \in DOMAIN rels |-> AgeErrorsOf(ps, rels[i])])

\* the parts a string splits into at '-': an id of the model holds no '-'
\* unless it is listed here with its parts
DashedIds == ("x-y" :> <<"x", "y">>)

IdParts(id) == IF id \in DOMAIN DashedIds THEN DashedIds[id] ELSE <<id>>

TypeParts(type) ==
    CASE type = "step-parent" -> <<"step", "parent">>
      [] type = "step-child" -> <<"step", "child">>
      [] type = "adopted-parent" -> <<"adopted", "parent">>
      [] type = "adopted-child" -> <<"adopted", "child">>
      [] type = "in-law" -> <<"in", "law">>
      [] OTHER -> <<type>>

\* `${personId}-${relationshipType}` as its '-'-separated parts: two keys are
\* the same string exactly when they have the same parts
DuplicateKey(relationship) ==
    IdParts(relationship.personId) \o TypeParts(relationship.relationshipType)

\* 3. relationshipMap: the Map as entries [key, related] in insertion order,
\* related being the Set as its members in insertion order
RECURSIVE GroupRelated(_, _)
GroupRelated(entries, rels) ==
    IF rels = <<>> THEN entries
    ELSE LET key == DuplicateKey(Head(rels))
             target == Head(rels).relatedPersonId
             hit == {i \in DOMAIN entries : entries[i].key = key}
             next == IF hit = {}
                     THEN Append(entries, [key |-> key, related |-> <<target>>])
                     ELSE [i \in DOMAIN entries |->
                             IF i \in hit /\ target \notin Range(entries[i].related)
                             THEN [entries[i] EXCEPT !.related = Append(@, target)]
                             ELSE entries[i]]
         IN GroupRelated(next, Tail(rels))

\* const [personId, relationshipType] = key.split('-')
DuplicateErrors(rels) ==
    LET many == SelectSeq(GroupRelated(<<>>, rels),
                          LAMBDA entry : Len(entry.related) > 1)
    IN [i \in DOMAIN many |->
          ValidationError("duplicate_relationship", "warning",
                          <<many[i].key[1]>> \o many[i].related)]

\* 4. the findings of one person of the missing-data check
MissingErrorsOf(person) ==
    (IF (person.birthDate = Null \/ person.birthDate = "") /\ ~person.isDeceased
     THEN <<ValidationError("missing_data", "info", <<person.id>>)>> ELSE <<>>)
    \o
    (IF person.isDeceased /\ (person.deathDate = Null \/ person.deathDate = "")
     THEN <<ValidationError("missing_data", "info", <<person.id>>)>> ELSE <<>>)

MissingErrors(ps) == Concat([i \in DOMAIN ps |-> MissingErrorsOf(ps[i])])

\* 5. the findings of one relationship of the spouse check
SpouseErrorsOf(ps, spouseRel) ==
    IF spouseRel.relationshipType = "spouse"
       /\ HasPerson(ps, spouseRel.personId)
       /\ HasPerson(ps, spouseRel.relatedPersonId)
    THEN LET spouse1 == FindPerson(ps, spouseRel.personId)
             spouse2 == FindPerson(ps, spouseRel.relatedPersonId)
             spouse1Birth == parseDate(spouse1.birthDate)
             spouse2Birth == parseDate(spouse2.birthDate)
             gap == IF spouse1Birth[1] > spouse2Birth[1]
                    THEN spouse1Birth[1] - spouse2Birth[1]
                    ELSE spouse2Birth[1] - spouse1Birth[1]
         IN IF spouse1Birth # <<>> /\ spouse2Birth # <<>>
               /\ 4 * gap > MaxSpouseGapYears * QuarterDaysPerYear
            THEN <<ValidationError("logical_error", "warning",
                                   <<spouse1.id, spouse2.id>>)>>
            ELSE <<>>
    ELSE <<>>

SpouseErrors(ps, rels) == Concat([i \in DOMAIN rels |-> SpouseErrorsOf(ps, rels[i])])

\* the errors array of validateRelationships
Validate(ps, rels) ==
    CircularErrors(ps, rels) \o AgeErrors(ps, rels) \o DuplicateErrors(rels)
        \o MissingErrors(ps) \o SpouseErrors(ps, rels)

\* validateRelationships(), called on the rendered state
validateRelationships ==
    /\ validationErrors' = Validate(people, relationships)
    /\ UNCHANGED <<people, relationships, rootPersonId, query, paths,
                 labelled, relatives>>

(***************************************************************************)
(* The graph library: the relationship labeller. fromPerson and people are *)
(* parameters no branch reads; toPerson is read for its gender only.       *)
(***************************************************************************)
Genders == {"male", "female", "other"}

getDirectRelationshipLabel(relationshipType, toGender) ==
    CASE relationshipType = "parent" ->
            IF toGender = "female" THEN "mother" ELSE "father"
      [] relationshipType = "child" ->
            IF toGender = "female" THEN "daughter" ELSE "son"
      [] relationshipType = "spouse" ->
            IF toGender = "female" THEN "wife" ELSE "husband"
      [] relationshipType = "sibling" ->
            IF toGender = "female" THEN "sister" ELSE "brother"
      [] relationshipType = "grandparent" ->
            IF toGender = "female" THEN "grandmother" ELSE "grandfather"
      [] relationshipType = "grandchild" ->
            IF toGender = "female" THEN "granddaughter" ELSE "grandson"
      [] relationshipType = "aunt" -> "aunt"
      [] relationshipType = "uncle" -> "uncle"
      [] relationshipType = "niece" -> "niece"
      [] relationshipType = "nephew" -> "nephew"
      [] relationshipType = "cousin" -> "cousin"
      [] relationshipType = "step-parent" ->
            IF toGender = "female" THEN "stepmother" ELSE "stepfather"
      [] relationshipType = "step-child" ->
            IF toGender = "female" THEN "stepdaughter" ELSE "stepson"
      [] relationshipType = "adopted-parent" ->
            IF toGender = "female" THEN "adoptive mother" ELSE "adoptive father"
      [] relationshipType = "adopted-child" ->
            IF toGender = "female" THEN "adopted daughter" ELSE "adopted son"
      [] relationshipType = "in-law" -> "in-law"
      [] OTHER -> relationshipType

\* the first branch whose test holds returns; Null when none does
getCompoundRelationshipLabel(path) ==
    IF Len(path) = 2 /\ path[1] = "parent" /\ path[2] = "spouse" THEN "mother-in-law"
    ELSE IF Len(path) = 2 /\ path[1] = "parent" /\ path[2] = "spouse" THEN "father-in-law"
    ELSE IF Len(path) = 2 /\ path[1] = "sibling" /\ path[2] = "spouse" THEN "sister-in-law"
    ELSE IF Len(path) = 2 /\ path[1] = "sibling" /\ path[2] = "spouse" THEN "brother-in-law"
    ELSE IF Len(path) = 2 /\ path[1] = "child" /\ path[2] = "spouse" THEN "daughter-in-law"
    ELSE IF Len(path) = 2 /\ path[1] = "child" /\ path[2] = "spouse" THEN "son-in-law"
    ELSE IF Len(path) = 3 /\ path[1] = "parent" /\ path[2] = "spouse" /\ path[3] = "child"
         THEN "step-sibling"
    ELSE IF Len(path) = 2 /\ path[1] = "parent" /\ path[2] = "child" THEN "half-sibling"
    ELSE Null

\* labels.join(' → ')
RECURSIVE JoinArrow(_)
JoinArrow(labels) ==
    IF labels = <<>> THEN ""
    ELSE IF Len(labels) = 1 THEN labels[1]
    ELSE labels[1] \o " → " \o JoinArrow(Tail(labels))

\* the descriptive path with every hop given its direct label
generateDescriptivePathAllDirect(path, toGender) ==
    JoinArrow([index \in DOMAIN path |-> getDirectRelationshipLabel(path[index], toGender)])

generateDescriptivePath(path, toGender) ==
    JoinArrow([index \in DOMAIN path |->
                  IF index = 1 THEN getDirectRelationshipLabel(path[index], toGender)
                  ELSE path[index]])

getRelationshipLabel(path, toGender) ==
    IF Len(path) = 0 THEN "self"
    ELSE IF Len(path) = 1 THEN getDirectRelationshipLabel(path[1], toGender)
    ELSE IF getCompoundRelationshipLabel(path) # Null
         THEN getCompoundRelationshipLabel(path)
    ELSE generateDescriptivePath(path, toGender)

\* a call getRelationshipLabel(path, fromPerson, toPerson, people), toPerson
\* of the given gender
labelPath(path, toGender) ==
    /\ labelled' = [path |-> path, gender |-> toGender,
                    label |-> getRelationshipLabel(path, toGender)]
    /\ UNCHANGED <<people, relationships, rootPersonId, validationErrors, query, paths,
                   relatives>>

(***************************************************************************)
(* The graph library: relative queries.                                    *)
(***************************************************************************)
\* maxDistance: number = 6
DefaultMaxDistance == 6

FilterNames ==
    {"cousins", "auntsAndUncles", "niecesAndNephews", "grandparents",
     "grandchildren", "inLaws"}

\* relationshipFilters[name](path)
relationshipFilters(name, path) ==
    CASE name = "cousins" ->
            /\ Len(path.path) = 3
            /\ path.path[1] = "parent" /\ path.path[2] = "sibling"
            /\ path.path[3] = "child"
      [] name = "auntsAndUncles" ->
            /\ Len(path.path) = 2
            /\ path.path[1] = "parent" /\ path.path[2] = "sibling"
      [] name = "niecesAndNephews" ->
            /\ Len(path.path) = 2
            /\ path.path[1] = "sibling" /\ path.path[2] = "child"
      [] name = "grandparents" ->
            /\ Len(path.path) = 2
            /\ path.path[1] = "parent" /\ path.path[2] = "parent"
      [] name = "grandchildren" ->
            /\ Len(path.path) = 2
            /\ path.path[1] = "child" /\ path.path[2] = "child"
      [] name = "inLaws" ->
            "spouse" \in Range(path.path) /\ Len(path.path) > 1

\* the entry of one target with personId's own entry kept
RelativeEntryWithSelf(graph, personId, filter, maxDistance, targetId) ==
    LET found == findRelationshipPaths(graph, personId, targetId, maxDistance)
        filteredPaths == SelectSeq(found, LAMBDA p : relationshipFilters(filter, p))
    IN IF Len(filteredPaths) > 0 \/ targetId = personId
       THEN <<[personId |-> targetId, paths |-> filteredPaths]>>
       ELSE <<>>

\* the entry of one target of getAllRelatives: none for personId itself and
\* for a target without a path that passes the filter
RelativeEntry(graph, personId, filter, maxDistance, targetId) ==
    IF targetId # personId
    THEN LET found == findRelationshipPaths(graph, personId, targetId, maxDistance)
             filteredPaths == SelectSeq(found, LAMBDA p : relationshipFilters(filter, p))
         IN IF Len(filteredPaths) > 0
            THEN <<[personId |-> targetId, paths |-> filteredPaths]>>
            ELSE <<>>
    ELSE <<>>

\* Object.keys(graph).forEach(...) into the Map, then Array.from(entries)
getAllRelatives(graph, personId, filter, maxDistance) ==
    Concat([i \in DOMAIN graph.order |->
               RelativeEntry(graph, personId, filter, maxDistance, graph.order[i])])

\* getAllRelativesOf(personId, filter) of the hook, as getCousins,
\* getAuntsAndUncles, getNiecesAndNephews, getGrandparents, getGrandchildren
\* and getInLaws call it: maxDistance takes its default
getAllRelativesOf(personId, filter) ==
    /\ relatives' = [personId |-> personId, filter |-> filter,
                     result |-> getAllRelatives(relationshipGraph, personId, filter,
                                                DefaultMaxDistance)]
    /\ UNCHANGED <<people, relationships, rootPersonId, validationErrors, query, paths,
                   labelled>>

RelativesAsked == relatives.personId # Null

RelativeIds == {relatives.result[i].personId : i \in DOMAIN relatives.result}

(***************************************************************************)
(* The hook's graph query.                                                 *)
(***************************************************************************)
\* findRelationshipPath(fromPersonId, toPersonId, maxDistance) of the hook
findRelationshipPath(fromPersonId, toPersonId, maxDistance) ==
    /\ query' = [fromId |-> fromPersonId, toId |-> toPersonId,
                 maxDistance |-> maxDistance]
    /\ paths' = findRelationshipPaths(relationshipGraph, fromPersonId, toPersonId,
                                      maxDistance)
    /\ UNCHANGED <<people, relationships, rootPersonId, validationErrors,
                 labelled, relatives>>

\* the string getRelationshipLabelBetween(fromPersonId, toPersonId) returns
RelationshipLabelBetween(ps, rels, fromPersonId, toPersonId) ==
    IF ~HasPerson(ps, fromPersonId) \/ ~HasPerson(ps, toPersonId) THEN "Unknown"
    ELSE LET found == findRelationshipPaths(buildRelationshipGraph(ps, rels),
                                            fromPersonId, toPersonId, DefaultMaxDistance)
         IN IF Len(found) = 0 THEN "No relationship found"
            ELSE getRelationshipLabel(found[1].path, FindPerson(ps, toPersonId).gender)

\* getRelationshipLabelBetween(fromPersonId, toPersonId) of the hook
getRelationshipLabelBetween(fromPersonId, toPersonId) ==
    /\ labelled' = [fromId |-> fromPersonId, toId |-> toPersonId,
                    label |-> RelationshipLabelBetween(people, relationships,
                                                       fromPersonId, toPersonId)]
    /\ UNCHANGED <<people, relationships, rootPersonId, validationErrors, query, paths,
                   relatives>>

Asked == query.fromId # Null

(***************************************************************************)
(* SpecPaths: path queries on the graphs of up to MaxPathAdds declared     *)
(* parent facts among four people, each pair of people related at most     *)
(* once and named elder first; ids that no relationship names are absent   *)
(* from the graph (the people list is empty).                              *)
(***************************************************************************)
PathIds == {"a", "b", "c", "d"}

PathPairs ==
    {<<"a", "b">>, <<"a", "c">>, <<"a", "d">>, <<"b", "c">>, <<"b", "d">>, <<"c", "d">>}

MaxPathAdds == 4

MaxQueryDistance == 3

Related(p, r) ==
    \E i \in DOMAIN relationships :
        /\ relationships[i].personId = p
        /\ relationships[i].relatedPersonId = r

PathAdd ==
    /\ Len(relationships) < 2 * MaxPathAdds
    /\ \E pr \in PathPairs :
          /\ ~Related(pr[1], pr[2])
          /\ addRelationship(pr[1], pr[2], "parent")

\* A call is taken from a state that holds no earlier result: the function
\* reads the graph only, so a later call in the same store state returns what
\* it would have returned as the first call.
PathFind ==
    /\ ~Asked
    /\ \E f \in PathIds, t \in PathIds, d \in 0..MaxQueryDistance :
          findRelationshipPath(f, t, d)

InitPaths == EmptyStore

NextPaths == PathAdd \/ PathFind

SpecPaths == InitPaths /\ [][NextPaths]_vars

\* the people along a returned path, fromId first
PathPersons(fromId, p) ==
    <<fromId>> \o [i \in DOMAIN p.segments |-> p.segments[i].personId]

\* every walk that extends `walk` to toId in at most `hops` more hops without
\* repeating a person, as the sequence of people walked
RECURSIVE SimpleWalks(_, _, _, _)
SimpleWalks(graph, walk, toId, hops) ==
    LET last == walk[Len(walk)]
        next == {n.id : n \in Range(Neighbors(graph, last))} \ Range(walk)
    IN IF last = toId THEN {walk}
       ELSE IF hops = 0 THEN {}
       ELSE UNION {SimpleWalks(graph, Append(walk, n), toId, hops - 1) : n \in next}

SelfPath == [segments |-> <<>>, path |-> <<>>, distance |-> 0, confidence |-> 100]

\* C5: for fromId # toId, findRelationshipPaths returns every path from fromId
\* to toId that repeats no person and has at most maxDistance hops.
C5_EverySimplePathReturned ==
    (Asked /\ query.fromId # query.toId) =>
        \A w \in SimpleWalks(relationshipGraph, <<query.fromId>>, query.toId,
                             query.maxDistance) :
            \E i \in DOMAIN paths : PathPersons(query.fromId, paths[i]) = w

\* C6: for X a key of the graph and any maxDistance, findRelationshipPaths(graph,
\* X, X, maxDistance) is exactly one path: distance 0, confidence 1.0, no hops.
C6_SelfPath ==
    (Asked /\ query.fromId = query.toId
           /\ query.fromId \in GraphKeys(relationshipGraph)) =>
        paths = <<SelfPath>>

C6_Witness ==
    /\ Asked
    /\ query.fromId = "b" /\ query.toId = "b"
    /\ "b" \in GraphKeys(relationshipGraph)
    /\ Len(Neighbors(relationshipGraph, "b")) = 2
    /\ Len(paths) = 1

AbsentFrom == Asked /\ query.fromId \notin GraphKeys(relationshipGraph)

EmptyInputsGiveEmptyGraph ==
    (people = <<>> /\ relationships = <<>>) => relationshipGraph = EmptyGraph

\* C7 as stated: buildRelationshipGraph([], []) is the empty mapping, and when
\* X is no key of the graph findRelationshipPaths returns the empty list, for
\* (X, Y) with X # Y and for the self case (X, X) alike.
C7_AbsentAlwaysEmpty ==
    /\ EmptyInputsGiveEmptyGraph
    /\ AbsentFrom => paths = <<>>

\* C7 amended: buildRelationshipGraph([], []) is the empty mapping; when X is
\* no key of the graph findRelationshipPaths(graph, X, Y) with X # Y returns
\* the empty list, and the self case findRelationshipPaths(graph, X, X) returns
\* the single zero-length path whether or not X is a key.
C7_AbsentEmptyButSelf ==
    /\ EmptyInputsGiveEmptyGraph
    /\ (AbsentFrom /\ query.fromId # query.toId) => paths = <<>>
    /\ (AbsentFrom /\ query.fromId = query.toId) => paths = <<SelfPath>>

C7_Witness ==
    /\ AbsentFrom
    /\ query.fromId = "d" /\ query.toId = "d"
    /\ GraphKeys(relationshipGraph) = {"a", "b", "c"}
    /\ paths # <<>>

\* C8: every returned path has distance = number of hops of its path and of
\* its segments, distance <= maxDistance, and the list is in non-decreasing
\* order of distance.
C8_Monotone ==
    Asked =>
        /\ \A i \in DOMAIN paths :
              /\ paths[i].distance = Len(paths[i].path)
              /\ paths[i].distance = Len(paths[i].segments)
              /\ paths[i].distance <= query.maxDistance
        /\ \A i \in DOMAIN paths, j \in DOMAIN paths :
              i < j => paths[i].distance <= paths[j].distance

\* two paths of different lengths were returned
C8_Witness ==
    /\ Asked
    /\ Len(paths) >= 2
    /\ paths[1].distance = 1
    /\ paths[Len(paths)].distance = 3

(***************************************************************************)
(* SpecChain: path queries on a line of descent n1 -> n2 -> ... of up to   *)
(* MaxChainLinks declared parent facts, which one more fact (the last      *)
(* person recorded as parent of the first) may close into a ring, so that  *)
(* paths of every length up to MaxChainLinks are returned.                 *)
(***************************************************************************)
ChainIds == <<"n1", "n2", "n3", "n4", "n5", "n6", "n7", "n8", "n9", "n10">>

MaxChainLinks == 7

ChainPeople == {ChainIds[i] : i \in 1..(MaxChainLinks + 1)}

ChainClosed ==
    \E i \in DOMAIN relationships : relationships[i].relatedPersonId = ChainIds[1]
                                    /\ relationships[i].relationshipType = "parent"

ChainAdd ==
    /\ ~ChainClosed
    /\ Len(relationships) < 2 * MaxChainLinks
    /\ LET k == (Len(relationships) \div 2) + 1
       IN addRelationship(ChainIds[k], ChainIds[k + 1], "parent")

ChainClose ==
    /\ ~ChainClosed
    /\ Len(relationships) >= 4
    /\ LET k == (Len(relationships) \div 2) + 1
       IN addRelationship(ChainIds[k], ChainIds[1], "parent")

ChainFind ==
    /\ ~Asked
    /\ \E f \in ChainPeople, t \in ChainPeople,
          d \in {DefaultMaxDistance, MaxChainLinks} :
          findRelationshipPath(f, t, d)

InitChain == EmptyStore

NextChain == ChainAdd \/ ChainClose \/ ChainFind

SpecChain == InitChain /\ [][NextChain]_vars

\* max(0.5, 1.0 - 0.1 * (L - 1)) in hundredths, 1.0 for the zero-length path
ExpectedConfidence(L) ==
    IF L = 0 THEN 100
    ELSE IF 100 - 10 * (L - 1) >= 50 THEN 100 - 10 * (L - 1) ELSE 50

\* C9: a returned path of length L >= 1 has confidence max(0.5, 1.0 - 0.1*(L-1))
\* (L = 1 gives 1.0, L = 4 gives 0.7, L >= 6 gives 0.5), the zero-length path
\* has 1.0, every confidence lies in [0.5, 1.0] and never increases with length.
C9_ConfidenceFormula ==
    Asked =>
        /\ \A i \in DOMAIN paths :
              LET L == Len(paths[i].segments)
                  c == paths[i].confidence
              IN /\ c = ExpectedConfidence(L)
                 /\ (L = 0 \/ L = 1) => c = 100
                 /\ L = 4 => c = 70
                 /\ L >= 6 => c = 50
                 /\ 50 <= c /\ c <= 100
        /\ \A i \in DOMAIN paths, j \in DOMAIN paths :
              Len(paths[i].segments) <= Len(paths[j].segments)
                  => paths[i].confidence >= paths[j].confidence

\* both ways round a ring of eight: a 2-hop path at 0.9 and a 6-hop path at 0.5
C9_Witness ==
    /\ Asked
    /\ Len(paths) = 2
    /\ Len(paths[1].segments) = 2 /\ paths[1].confidence = 90
    /\ Len(paths[2].segments) = 6 /\ paths[2].confidence = 50

(***************************************************************************)
(* Spec: the store under declared parent, spouse and sibling facts among   *)
(* four people (each pair named elder first, any fact any number of times) *)
(* followed by inference.  The people list holds a male, a non-binary and  *)
(* a female person; "d" is named by relationships only.                    *)
(***************************************************************************)
InferPairs == PathPairs

DeclaredTypes == {"parent", "spouse", "sibling"}

MaxInferAdds == 3

InferPeople ==
    <<Person("a", "male", Null, FALSE, Null),
      Person("b", "other", Null, FALSE, Null),
      Person("c", "female", Null, FALSE, Null)>>

HasInferred == \E i \in DOMAIN relationships : relationships[i].isInferred

Add ==
    /\ ~HasInferred
    /\ Len(relationships) < 2 * MaxInferAdds
    /\ \E pr \in InferPairs, t \in DeclaredTypes :
          addRelationship(pr[1], pr[2], t)

Infer == inferRelationships

Init ==
    /\ people = InferPeople
    /\ relationships = <<>>
    /\ rootPersonId = Null
    /\ validationErrors = <<>>
    /\ query = NoQuery
    /\ paths = <<>>
    /\ labelled = NoLabel
    /\ relatives = NoRelatives

Next == Add \/ Infer

Spec == Init /\ [][Next]_vars

\* the user-declared records of the store, in order
Declared == SelectSeq(relationships, LAMBDA rel : ~rel.isInferred)

HasRecord(rels, personId, relatedPersonId, type) ==
    \E i \in DOMAIN rels :
        /\ rels[i].personId = personId
        /\ rels[i].relatedPersonId = relatedPersonId
        /\ rels[i].relationshipType = type

SiblingRecords(rels) == SelectSeq(rels, LAMBDA rel : rel.relationshipType = "sibling")

\* the declared facts are exactly: P is parent of the three distinct children
\* in kids (each fact declared once through addRelationship)
OnlyParentOfThree(P, kids) ==
    /\ Cardinality(kids) = 3
    /\ P \notin kids
    /\ Len(Declared) = 6
    /\ \A k \in kids : /\ HasRecord(Declared, P, k, "parent")
                       /\ HasRecord(Declared, k, P, "child")

\* C2: with P parent of three distinct children A, B, C and no prior sibling
\* relationships, one run of inferRelationships yields sibling relationships for
\* exactly the pairs {A,B}, {A,C}, {B,C}, each in both directions, each record
\* with confidence 0.95 and isInferred true; a second run adds no sibling.
C2_SiblingInference ==
    \A P \in PathIds : \A kids \in SUBSET PathIds :
        (OnlyParentOfThree(P, kids) /\ HasInferred) =>
            /\ \A x \in kids, y \in kids :
                  x # y => HasRecord(relationships, x, y, "sibling")
            /\ \A i \in DOMAIN relationships :
                  relationships[i].relationshipType = "sibling" =>
                      /\ relationships[i].personId \in kids
                      /\ relationships[i].relatedPersonId \in kids
                      /\ relationships[i].personId # relationships[i].relatedPersonId
                      /\ relationships[i].confidence = 95
                      /\ relationships[i].isInferred
            /\ SiblingRecords(InferredRelationships(people, relationships))
                  = SiblingRecords(relationships)

\* C3: for every relationship (a, b, t) that inferRelationships adds, the list
\* also holds (b, a, reverse(t)), the self-reverse types included.
C3_InferredReciprocals ==
    \A i \in DOMAIN relationships :
        relationships[i].isInferred =>
            \E j \in DOMAIN relationships :
                /\ relationships[j].personId = relationships[i].relatedPersonId
                /\ relationships[j].relatedPersonId = relationships[i].personId
                /\ <<relationships[i].relationshipType,
                     relationships[j].relationshipType>> \in ReversePairs

\* C4: inferRelationships applied to its own output adds nothing: the second
\* run returns the list of the first run, record for record.
C4_Idempotent ==
    LET once == InferredRelationships(people, relationships)
    IN InferredRelationships(people, once) = once

\* after a run that derived an uncle and a cousin, the store is a fixed point
C4_Witness ==
    /\ \E i \in DOMAIN relationships :
          relationships[i].isInferred /\ relationships[i].relationshipType = "uncle"
    /\ \E i \in DOMAIN relationships :
          relationships[i].isInferred /\ relationships[i].relationshipType = "cousin"
    /\ InferredRelationships(people, relationships) = relationships

(***************************************************************************)
(* SpecValidate: validation of stores of up to MaxValidAdds declared       *)
(* parent facts among three ids, in any direction and with a person        *)
(* possibly recorded as their own parent; the people list holds all three  *)
(* ids or only two of them.                                                *)
(***************************************************************************)
ValidIds == {"a", "b", "c"}

MaxValidAdds == 3

ValidPeopleLists ==
    {<<Person("a", "male", Null, FALSE, Null), Person("b", "female", Null, FALSE, Null),
       Person("c", "other", Null, FALSE, Null)>>,
     <<Person("b", "female", Null, FALSE, Null), Person("a", "male", Null, FALSE, Null)>>}

ValidAdd ==
    /\ Len(relationships) < 2 * MaxValidAdds
    /\ \E p \in ValidIds, r \in ValidIds : addRelationship(p, r, "parent")

ValidValidate == validateRelationships

InitValidate ==
    /\ people \in ValidPeopleLists
    /\ relationships = <<>>
    /\ rootPersonId = Null
    /\ validationErrors = <<>>
    /\ query = NoQuery
    /\ paths = <<>>
    /\ labelled = NoLabel
    /\ relatives = NoRelatives

NextValidate == ValidAdd \/ ValidValidate

SpecValidate == InitValidate /\ [][NextValidate]_vars

\* the stored findings are the validator's findings for the store as it is
Validated == validationErrors = Validate(people, relationships)

\* the people recorded as a parent of someone in S
ParentsOf(S) ==
    {relationships[i].personId : i \in
        {j \in DOMAIN relationships :
            /\ relationships[j].relationshipType = "parent"
            /\ relationships[j].relatedPersonId \in S}}

\* everyone reached from S by one to n + 1 upward parent steps
RECURSIVE AncestorsWithin(_, _)
AncestorsWithin(S, n) ==
    IF n = 0 THEN ParentsOf(S)
    ELSE LET up == AncestorsWithin(S, n - 1) IN up \cup ParentsOf(up)

\* p is on a cycle of parent-type relationships
OnParentCycle(p) == p \in AncestorsWithin({p}, Len(relationships))

PersonIds == {people[i].id : i \in DOMAIN people}

HasCircularFinding(p) ==
    \E i \in DOMAIN validationErrors :
        /\ validationErrors[i].type = "circular_reference"
        /\ validationErrors[i].severity = "error"
        /\ validationErrors[i].affectedPersons = <<p>>

\* C10: whenever the parent-type relationships hold a cycle (of two people, of
\* any length, or a person recorded as their own parent), validateRelationships
\* yields a circular_reference finding of severity error for every person of
\* the people list on that cycle.
C10_CircularDetected ==
    Validated => \A p \in PersonIds : OnParentCycle(p) => HasCircularFinding(p)

\* validated stores with a three-person cycle, and with a self-parent
C10_Witness ==
    /\ Validated
    /\ HasRecord(relationships, "a", "b", "parent")
    /\ HasRecord(relationships, "b", "c", "parent")
    /\ HasRecord(relationships, "c", "a", "parent")
    /\ HasCircularFinding("a") /\ HasCircularFinding("b") /\ HasCircularFinding("c")

NoParentCycle == \A p \in ValidIds : ~OnParentCycle(p)

NoCircularFinding ==
    \A i \in DOMAIN validationErrors :
        validationErrors[i].type # "circular_reference"

\* C11: when the parent-type relationships hold no cycle, validateRelationships
\* yields no circular_reference finding, also when one ancestor is reached from
\* a person along two different parent lines.
C11_NoFalseCircular == (Validated /\ NoParentCycle) => NoCircularFinding

\* a validated store where a is reached from c directly and through b
C11_Witness ==
    /\ Validated
    /\ Len(people) = 3
    /\ HasRecord(relationships, "a", "b", "parent")
    /\ HasRecord(relationships, "b", "c", "parent")
    /\ HasRecord(relationships, "a", "c", "parent")
    /\ NoParentCycle
    /\ NoCircularFinding

(***************************************************************************)
(* SpecDuplicates: validation of stores of up to MaxDupAdds declared       *)
(* parent or spouse facts held by the person "a" or by a person whose id   *)
(* holds a '-' (as the ids of imported placeholder persons can).           *)
(***************************************************************************)
DupHolders == {"a", "x-y"}

DupTargets == {"a", "b", "c"}

DupTypes == {"parent", "spouse"}

MaxDupAdds == 3

DupPeople ==
    <<Person("x-y", "female", Null, FALSE, Null), Person("a", "male", Null, FALSE, Null),
      Person("b", "other", Null, FALSE, Null), Person("c", "female", Null, FALSE, Null)>>

DupAdd ==
    /\ Len(relationships) < 2 * MaxDupAdds
    /\ \E p \in DupHolders, r \in DupTargets, t \in DupTypes : addRelationship(p, r, t)

DupValidate == validateRelationships

InitDuplicates ==
    /\ people = DupPeople
    /\ relationships = <<>>
    /\ rootPersonId = Null
    /\ validationErrors = <<>>
    /\ query = NoQuery
    /\ paths = <<>>
    /\ labelled = NoLabel
    /\ relatives = NoRelatives

NextDuplicates == DupAdd \/ DupValidate

SpecDuplicates == InitDuplicates /\ [][NextDuplicates]_vars

\* the distinct relatedPersonIds of the (personId, relationshipType) group
RelatedOf(personId, type) ==
    {relationships[i].relatedPersonId : i \in
        {j \in DOMAIN relationships :
            /\ relationships[j].personId = personId
            /\ relationships[j].relationshipType = type}}

\* the (personId, relationshipType) groups with more than one relatedPersonId
DuplicateGroups ==
    {g \in {<<relationships[i].personId, relationships[i].relationshipType>> :
                i \in DOMAIN relationships} :
        Cardinality(RelatedOf(g[1], g[2])) > 1}

DuplicateFindings ==
    SelectSeq(validationErrors, LAMBDA e : e.type = "duplicate_relationship")

\* C12: validateRelationships yields one duplicate_relationship warning for each
\* (personId, relationshipType) group with more than one distinct
\* relatedPersonId and none for any other group; the warning's affectedPersons
\* are the holder's id and the distinct relatedPersonIds of the group, whatever
\* characters the ids hold.
C12_DuplicateDetection ==
    Validated =>
        /\ Len(DuplicateFindings) = Cardinality(DuplicateGroups)
        /\ \A g \in DuplicateGroups :
              \E i \in DOMAIN DuplicateFindings :
                  /\ DuplicateFindings[i].severity = "warning"
                  /\ Range(DuplicateFindings[i].affectedPersons)
                        = {g[1]} \cup RelatedOf(g[1], g[2])

(***************************************************************************)
(* SpecLabels: the labeller applied to every path of up to MaxLabelHops    *)
(* relationship types and every gender of the target person.               *)
(***************************************************************************)
MaxLabelHops == 3

RECURSIVE TypePaths(_)
TypePaths(n) ==
    IF n = 0 THEN {<<>>}
    ELSE LET shorter == TypePaths(n - 1)
         IN shorter \cup {Append(p, t) : p \in {q \in shorter : Len(q) = n - 1},
                                         t \in RelationshipTypes}

\* one call per behaviour: the labeller reads nothing but its arguments
LabelPath ==
    /\ labelled.label = Null
    /\ \E path \in TypePaths(MaxLabelHops), g \in Genders : labelPath(path, g)

InitLabels == EmptyStore

NextLabels == LabelPath

SpecLabels == InitLabels /\ [][NextLabels]_vars

LabelAsked == labelled.label # Null

\* C13: for the path [sibling, spouse] the label is sister-in-law for a female
\* target and brother-in-law otherwise; for [child, spouse] daughter-in-law or
\* son-in-law; for [parent, spouse] mother-in-law or father-in-law.
C13_InLawLabelsByGender ==
    LabelAsked =>
        /\ labelled.path = <<"sibling", "spouse">> =>
              labelled.label = IF labelled.gender = "female"
                               THEN "sister-in-law" ELSE "brother-in-law"
        /\ labelled.path = <<"child", "spouse">> =>
              labelled.label = IF labelled.gender = "female"
                               THEN "daughter-in-law" ELSE "son-in-law"
        /\ labelled.path = <<"parent", "spouse">> =>
              labelled.label = IF labelled.gender = "female"
                               THEN "mother-in-law" ELSE "father-in-law"

\* the nouns of the gendered relationship types: for a female target, otherwise
GenderedNouns ==
    [t \in {"parent", "child", "spouse", "sibling", "grandparent", "grandchild",
            "step-parent", "step-child", "adopted-parent", "adopted-child"} |->
        CASE t = "parent" -> <<"mother", "father">>
          [] t = "child" -> <<"daughter", "son">>
          [] t = "spouse" -> <<"wife", "husband">>
          [] t = "sibling" -> <<"sister", "brother">>
          [] t = "grandparent" -> <<"grandmother", "grandfather">>
          [] t = "grandchild" -> <<"granddaughter", "grandson">>
          [] t = "step-parent" -> <<"stepmother", "stepfather">>
          [] t = "step-child" -> <<"stepdaughter", "stepson">>
          [] t = "adopted-parent" -> <<"adoptive mother", "adoptive father">>
          [] t = "adopted-child" -> <<"adopted daughter", "adopted son">>]

FirstHopLabel(t, gender) ==
    IF t \in DOMAIN GenderedNouns
    THEN GenderedNouns[t][IF gender = "female" THEN 1 ELSE 2]
    ELSE t

\* text followed by the hop types from position i on, each after an arrow
RECURSIVE WithHopsFrom(_, _, _)
WithHopsFrom(text, path, i) ==
    IF i > Len(path) THEN text
    ELSE WithHopsFrom(text \o " → " \o path[i], path, i + 1)

CompoundPatterns ==
    {<<"parent", "spouse">>, <<"sibling", "spouse">>, <<"child", "spouse">>,
     <<"parent", "spouse", "child">>, <<"parent", "child">>}

\* C14: a path of two or more hops that matches no compound pattern is
\* labelled with the direct label of its first hop, gendered by the target,
\* followed by the remaining hop types as they are, joined by ' → '; the
\* path of length 0 is labelled 'self'.
C14_GenericFallback ==
    LabelAsked =>
        /\ (Len(labelled.path) >= 2 /\ labelled.path \notin CompoundPatterns) =>
              labelled.label =
                  WithHopsFrom(FirstHopLabel(labelled.path[1], labelled.gender),
                               labelled.path, 2)
        /\ Len(labelled.path) = 0 => labelled.label = "self"

\* the path [parent, sibling] to a female target is labelled 'mother → sibling'
C14_Witness ==
    /\ labelled.path = <<"parent", "sibling">>
    /\ labelled.gender = "female"
    /\ labelled.label = "mother → sibling"

(***************************************************************************)
(* SpecFamily: a family of five - g, the children p and s, and their       *)
(* children c and k - declared by up to MaxFamilyAdds parent facts, each   *)
(* at most once, then inferRelationships, and a relative query.            *)
(***************************************************************************)
FamilyPeople ==
    <<Person("g", "male", Null, FALSE, Null), Person("p", "female", Null, FALSE, Null),
      Person("s", "male", Null, FALSE, Null), Person("c", "other", Null, FALSE, Null),
      Person("k", "female", Null, FALSE, Null)>>

FamilyIds == {"g", "p", "s", "c", "k"}

\* <<parent, child>>
FamilyPairs ==
    {<<"g", "p">>, <<"g", "s">>, <<"p", "c">>, <<"s", "k">>, <<"s", "c">>}

MaxFamilyAdds == 4

FamilyAdd ==
    /\ ~HasInferred
    /\ Len(relationships) < 2 * MaxFamilyAdds
    /\ \E pr \in FamilyPairs :
          /\ ~HasRecord(relationships, pr[1], pr[2], "parent")
          /\ addRelationship(pr[1], pr[2], "parent")

FamilyInfer == inferRelationships

\* one query per store: a query reads nothing but the graph of the store
FamilyRelatives ==
    /\ ~RelativesAsked
    /\ \E x \in FamilyIds, f \in FilterNames : getAllRelativesOf(x, f)

InitFamily ==
    /\ people = FamilyPeople
    /\ relationships = <<>>
    /\ rootPersonId = Null
    /\ validationErrors = <<>>
    /\ query = NoQuery
    /\ paths = <<>>
    /\ labelled = NoLabel
    /\ relatives = NoRelatives

NextFamily == FamilyAdd \/ FamilyInfer \/ FamilyRelatives

SpecFamily == InitFamily /\ [][NextFamily]_vars

InferredRecord(x, y, t) ==
    \E i \in DOMAIN relationships :
        /\ relationships[i].isInferred
        /\ relationships[i].personId = x
        /\ relationships[i].relatedPersonId = y
        /\ relationships[i].relationshipType = t

Answered(x, f) == relatives.personId = x /\ relatives.filter = f

\* C15: on the graph of the relationships after inference from declared parent
\* facts, getGrandparents(X) includes every G inferred a grandparent of X,
\* getAuntsAndUncles(X) every S inferred an aunt or uncle of X, and
\* getCousins(X) every C inferred a cousin of X.
C15_QueriesAgreeWithInference ==
    \A x \in FamilyIds, y \in FamilyIds :
        /\ (Answered(x, "grandparents") /\ InferredRecord(y, x, "grandparent"))
              => y \in RelativeIds
        /\ (Answered(x, "auntsAndUncles")
              /\ (InferredRecord(y, x, "aunt") \/ InferredRecord(y, x, "uncle")))
              => y \in RelativeIds
        /\ (Answered(x, "cousins")
              /\ (InferredRecord(y, x, "cousin") \/ InferredRecord(x, y, "cousin")))
              => y \in RelativeIds

\* the paths the path finder returns from the person asked about to t
PathsTo(t) ==
    findRelationshipPaths(relationshipGraph, relatives.personId, t, DefaultMaxDistance)

Matches(p) == relationshipFilters(relatives.filter, p)

SomePathMatches(t) == \E i \in DOMAIN PathsTo(t) : Matches(PathsTo(t)[i])

\* some path of the least distance among those returned matches the filter
SomeShortestPathMatches(t) ==
    \E i \in DOMAIN PathsTo(t) :
        /\ Matches(PathsTo(t)[i])
        /\ \A j \in DOMAIN PathsTo(t) : PathsTo(t)[i].distance <= PathsTo(t)[j].distance

RelativesWellFormed ==
    /\ RelativeIds \subseteq GraphKeys(relationshipGraph)
    /\ relatives.personId \notin RelativeIds
    /\ \A i, j \in DOMAIN relatives.result :
          relatives.result[i].personId = relatives.result[j].personId => i = j
    /\ \A i \in DOMAIN relatives.result :
          /\ Len(relatives.result[i].paths) > 0
          /\ \A n \in DOMAIN relatives.result[i].paths :
                Matches(relatives.result[i].paths[n])

\* C16 as stated: getAllRelatives returns T exactly when T is a key of the
\* graph other than personId whose shortest path(s) from personId match the
\* filter; personId is never returned, nobody twice, and every entry has a
\* non-empty list of paths that all pass the filter.
C16_RelativesByShortestPath ==
    RelativesAsked =>
        /\ RelativesWellFormed
        /\ \A t \in GraphKeys(relationshipGraph) :
              t \in RelativeIds <=> (t # relatives.personId /\ SomeShortestPathMatches(t))

\* C16 as the code has it: T is returned exactly when T is a key of the graph
\* other than personId and at least one of the paths the path finder returns
\* from personId to T, of any length, passes the filter.
C16_RelativesByAnyPath ==
    RelativesAsked =>
        /\ RelativesWellFormed
        /\ \A t \in GraphKeys(relationshipGraph) :
              t \in RelativeIds <=> (t # relatives.personId /\ SomePathMatches(t))

\* after inference g is one hop [grandchild] from k, and getGrandchildren(k)
\* returns g for the longer path [child, child]
C16_Witness ==
    /\ Answered("k", "grandchildren")
    /\ "g" \in RelativeIds
    /\ InferredRecord("k", "g", "grandchild")
    /\ ~SomeShortestPathMatches("g")

(***************************************************************************)
(* SpecAges: validation of up to MaxAgeAdds declared parent facts between  *)
(* two people whose birth dates are absent, empty, unparseable or dates;   *)
(* the id c is no person of the people list.                               *)
(***************************************************************************)
DateInputs == {Null, "", "not a date", "1950-01-01", "1960-01-01", "1960-01-02"}

AgePeopleLists ==
    {<<Person("a", "male", d1, FALSE, Null), Person("b", "female", d2, FALSE, Null)>> :
        d1 \in DateInputs, d2 \in DateInputs}

AgePairs == {<<"a", "b">>, <<"b", "a">>, <<"a", "c">>}

MaxAgeAdds == 2

AgeAdd ==
    /\ Len(relationships) < 2 * MaxAgeAdds
    /\ \E pr \in AgePairs : addRelationship(pr[1], pr[2], "parent")

AgeValidate == validateRelationships

InitAges ==
    /\ people \in AgePeopleLists
    /\ relationships = <<>>
    /\ rootPersonId = Null
    /\ validationErrors = <<>>
    /\ query = NoQuery
    /\ paths = <<>>
    /\ labelled = NoLabel
    /\ relatives = NoRelatives

NextAges == AgeAdd \/ AgeValidate

SpecAges == InitAges /\ [][NextAges]_vars

\* the birth date of the person id parses
BirthParses(id) ==
    /\ HasPerson(people, id)
    /\ FindPerson(people, id).birthDate \in DOMAIN KnownDates

BirthDay(id) == KnownDates[FindPerson(people, id).birthDate]

\* the parent-type relationships whose two persons are in the people list
ParentEdges ==
    {i \in DOMAIN relationships :
        /\ relationships[i].relationshipType = "parent"
        /\ HasPerson(people, relationships[i].personId)
        /\ HasPerson(people, relationships[i].relatedPersonId)}

FindingsOn(type, severity, persons) ==
    {i \in DOMAIN validationErrors :
        /\ validationErrors[i].type = type
        /\ validationErrors[i].severity = severity
        /\ validationErrors[i].affectedPersons = persons}

\* C17: for every parent-type relationship between two people of the people
\* list, validateRelationships reports an age_conflict error naming parent and
\* child exactly when both birth dates parse and the parent's is after the
\* child's; when a birth date is absent or unparseable the edge gets neither
\* an age_conflict nor a too-young-parent finding.
C17_AgeConflict ==
    Validated =>
        /\ \A i \in ParentEdges :
              LET parent == relationships[i].personId
                  child == relationships[i].relatedPersonId
                  both == BirthParses(parent) /\ BirthParses(child)
              IN /\ FindingsOn("age_conflict", "error", <<parent, child>>) # {}
                       <=> (both /\ BirthDay(parent) > BirthDay(child))
                 /\ ~both =>
                       FindingsOn("logical_error", "warning", <<parent, child>>) = {}
        /\ \A i \in DOMAIN validationErrors :
              validationErrors[i].type = "age_conflict" =>
                  \E e \in ParentEdges :
                      validationErrors[i].affectedPersons
                          = <<relationships[e].personId, relationships[e].relatedPersonId>>

\* a validated store where a, born after b, is recorded as a parent of b and
\* reported, and b, also recorded as a parent of a, is not
C17_Witness ==
    /\ Validated
    /\ HasRecord(relationships, "a", "b", "parent")
    /\ FindPerson(people, "a").birthDate = "1960-01-02"
    /\ FindPerson(people, "b").birthDate = "1950-01-01"
    /\ FindingsOn("age_conflict", "error", <<"a", "b">>) # {}
    /\ FindingsOn("age_conflict", "error", <<"b", "a">>) = {}
    /\ HasRecord(relationships, "b", "a", "parent")

(***************************************************************************)
(* SpecStore: the store under addPerson, updatePerson, deletePerson,       *)
(* setPeople, addRelationship, inferRelationships and                      *)
(* validateRelationships, with up to MaxStorePeople people and up to       *)
(* MaxStoreAdds declared parent facts at a time.                           *)
(***************************************************************************)
\* the ids addPerson hands out, in the order it does: an id is a token that
\* nothing reads but for equality, so which unused one is new does not matter
StoreIds == <<"p1", "p2", "p3">>

MaxStorePeople == 3

MaxStoreAdds == 2

ImportedPeople == {<<Person("p1", "female", "1950-01-01", FALSE, Null)>>}

StoreAddPerson ==
    /\ Len(people) < MaxStorePeople
    /\ \E n \in DOMAIN StoreIds :
          /\ \A m \in 1..(n - 1) : HasPerson(people, StoreIds[m])
          /\ addPerson(StoreIds[n], "male", Null)

\* the first person of the list is given a birth date
StoreUpdatePerson ==
    /\ people # <<>>
    /\ people[1].birthDate = Null
    /\ updatePerson(people[1].id, "1960-01-01")

StoreDeletePerson ==
    \E i \in DOMAIN people : deletePerson(people[i].id)

StoreSetPeople ==
    \E ps \in ImportedPeople : setPeople(ps)

\* parent facts are declared before inference, from an earlier person of the
\* list to a later one, each pair once
StoreAddRelationship ==
    /\ ~HasInferred
    /\ Len(relationships) < 2 * MaxStoreAdds
    /\ \E i, j \in DOMAIN people :
          /\ i < j
          /\ ~HasRecord(relationships, people[i].id, people[j].id, "parent")
          /\ addRelationship(people[i].id, people[j].id, "parent")

StoreInfer == inferRelationships

\* validation runs until it has stored findings: the behaviours checked hold
\* one run with findings, and any number of store operations before and after
StoreValidate ==
    /\ validationErrors = <<>>
    /\ validateRelationships

InitStore == EmptyStore

NextStore ==
    \/ StoreAddPerson
    \/ StoreUpdatePerson
    \/ StoreDeletePerson
    \/ StoreSetPeople
    \/ StoreAddRelationship
    \/ StoreInfer
    \/ StoreValidate

SpecStore == InitStore /\ [][NextStore]_vars

\* C18: in every reachable state of the store the stored validationErrors are
\* empty or are the validator's findings for the current people and
\* relationships, so that no finding names a person no longer in people.
C18_NoStaleFindings ==
    /\ validationErrors = <<>> \/ Validated
    /\ \A i \in DOMAIN validationErrors :
          validationErrors[i].type \in {"circular_reference", "missing_data"} =>
              Range(validationErrors[i].affectedPersons) \subseteq PersonIds

\* the confidence of the rule that infers a relationship of type t
RuleConfidence ==
    [t \in {"sibling", "grandparent", "grandchild", "aunt", "uncle", "niece",
            "nephew", "cousin", "in-law"} |->
        CASE t = "sibling" -> 95
          [] t \in {"grandparent", "grandchild"} -> 90
          [] t \in {"aunt", "uncle", "niece", "nephew"} -> 85
          [] t = "cousin" -> 80
          [] t = "in-law" -> 70]

InferenceStep == relationships' = InferredRelationships(people, relationships)

\* C19: the list inferRelationships returns starts with the input list, record
\* for record in its order; every record after it has isInferred true and the
\* confidence of its rule (sibling 0.95, grandparent/grandchild 0.9,
\* aunt/uncle/niece/nephew 0.85, cousin 0.8, in-law 0.7); people, rootPersonId
\* and validationErrors are left as they are.
C19_InferenceOnlyAppends ==
    [][InferenceStep =>
          /\ Len(relationships') >= Len(relationships)
          /\ SubSeq(relationships', 1, Len(relationships)) = relationships
          /\ \A i \in (Len(relationships) + 1)..Len(relationships') :
                /\ relationships'[i].isInferred
                /\ relationships'[i].relationshipType \in DOMAIN RuleConfidence
                /\ relationships'[i].confidence
                      = RuleConfidence[relationships'[i].relationshipType]
          /\ UNCHANGED <<people, rootPersonId, validationErrors>>]_vars

\* three declared parent facts followed by an inferred sibling, grandparent,
\* grandchild and aunt or uncle
C19_Witness ==
    /\ Len(Declared) = 6
    /\ SubSeq(relationships, 1, 6) = Declared
    /\ \E x \in PathIds, y \in PathIds :
          InferredRecord(x, y, "grandparent") /\ InferredRecord(y, x, "grandchild")
    /\ \E x \in PathIds, y \in PathIds : InferredRecord(x, y, "sibling")
    /\ \E x \in PathIds, y \in PathIds :
          InferredRecord(x, y, "aunt") \/ InferredRecord(x, y, "uncle")

InferredAt(x, y, t, confidence) ==
    \E i \in DOMAIN relationships :
        /\ relationships[i] = Relationship(x, y, t, TRUE, confidence)

DeclaredParent(x, y) == HasRecord(Declared, x, y, "parent")

\* C20: from declared parent facts alone, one run of inferRelationships yields
\* the sibling S of a parent P as aunt (S female) or uncle (otherwise) of P's
\* child with confidence 0.85, and the children of two siblings as cousins with
\* confidence 0.8: the siblings derived by the first rule are seen by the later
\* rules of the same run.
C20_SinglePassOrdering ==
    HasInferred =>
        /\ (DeclaredParent("g", "p") /\ DeclaredParent("g", "s") /\ DeclaredParent("p", "c"))
              => InferredAt("s", "c", "uncle", 85)
        /\ (DeclaredParent("g", "p") /\ DeclaredParent("g", "s") /\ DeclaredParent("s", "k"))
              => InferredAt("p", "k", "aunt", 85)
        /\ (DeclaredParent("g", "p") /\ DeclaredParent("g", "s")
              /\ DeclaredParent("p", "c") /\ DeclaredParent("s", "k"))
              => (InferredAt("c", "k", "cousin", 80) \/ InferredAt("k", "c", "cousin", 80))

\* the store after the four facts of the two-branch family and inference
C20_Witness ==
    /\ Len(Declared) = 8
    /\ DeclaredParent("g", "p") /\ DeclaredParent("g", "s")
    /\ DeclaredParent("p", "c") /\ DeclaredParent("s", "k")
    /\ InferredAt("s", "c", "uncle", 85)
    /\ InferredAt("p", "k", "aunt", 85)
    /\ InferredAt("c", "k", "cousin", 80) \/ InferredAt("k", "c", "cousin", 80)

(***************************************************************************)
(* SpecKin: labels between people of a store of up to MaxKinAdds declared  *)
(* parent facts among three people; z is no person of the store.           *)
(***************************************************************************)
KinPeople ==
    <<Person("a", "male", Null, FALSE, Null), Person("b", "female", Null, FALSE, Null),
      Person("c", "other", Null, FALSE, Null)>>

KinIds == {"a", "b", "c"}

MaxKinAdds == 2

KinAdd ==
    /\ Len(relationships) < 2 * MaxKinAdds
    /\ \E p \in KinIds, r \in KinIds : p # r /\ addRelationship(p, r, "parent")

\* one call per store: the label reads nothing but the store
KinLabel ==
    /\ ~LabelAsked
    /\ \E x \in KinIds \cup {"z"}, y \in KinIds \cup {"z"} :
          getRelationshipLabelBetween(x, y)

InitKin ==
    /\ people = KinPeople
    /\ relationships = <<>>
    /\ rootPersonId = Null
    /\ validationErrors = <<>>
    /\ query = NoQuery
    /\ paths = <<>>
    /\ labelled = NoLabel
    /\ relatives = NoRelatives

NextKin == KinAdd \/ KinLabel

SpecKin == InitKin /\ [][NextKin]_vars

LabelledBetween(x, y) == LabelAsked /\ labelled.fromId = x /\ labelled.toId = y

GenderOf(id) == FindPerson(people, id).gender

\* C21: when the store holds exactly the relationships of
\* addRelationship(P, C, 'parent'), the label from C to P is 'mother' for a
\* female P and 'father' otherwise, and the label from P to C is 'daughter' for
\* a female C and 'son' otherwise.
C21_DirectLabelsNameTarget ==
    \A P \in KinIds, C \in KinIds :
        (P # C /\ relationships = AddedRelationships(<<>>, P, C, "parent", FALSE)) =>
            /\ LabelledBetween(C, P) =>
                  labelled.label = IF GenderOf(P) = "female" THEN "mother" ELSE "father"
            /\ LabelledBetween(P, C) =>
                  labelled.label = IF GenderOf(C) = "female" THEN "daughter" ELSE "son"

CircularNamed ==
    {p \in PersonIds : \E i \in DOMAIN validationErrors :
        /\ validationErrors[i].type = "circular_reference"
        /\ p \in Range(validationErrors[i].affectedPersons)}

\* C22: every person named in a circular_reference finding is on a parent
\* cycle: reachable from themselves by one or more upward parent steps.
C22_OnlyCycleMembersFlagged ==
    Validated => \A p \in CircularNamed : OnParentCycle(p)

\* the ids the relationships name
RelationshipIds ==
    {relationships[i].personId : i \in DOMAIN relationships}
        \cup {relationships[i].relatedPersonId : i \in DOMAIN relationships}

\* a walk nests one call per distinct person it meets, and one more for the
\* person met again
WalkDepthOf(p) == Cardinality(RelationshipIds \cup {p}) + 1

FindingTypes ==
    {"circular_reference", "age_conflict", "logical_error",
     "duplicate_relationship", "missing_data"}

\* C23: for every people list and relationship list, parent cycles of any
\* length and self-parents included, every upward walk of validateRelationships
\* finishes, with the answer the validator uses, and the validator yields its
\* list of findings.
C23_ValidationTerminates ==
    /\ \A p \in PersonIds :
          LET walk == WalkCalls(relationships, p, {}, WalkDepthOf(p))
          IN /\ walk.finished
             /\ walk.hit = checkCircularReference(relationships, p, {})
    /\ \A i \in DOMAIN Validate(people, relationships) :
          Validate(people, relationships)[i].type \in FindingTypes

\* a validated store with a self-parent a inside the two-cycle of a and b
C23_Witness ==
    /\ Validated
    /\ HasRecord(relationships, "a", "a", "parent")
    /\ HasRecord(relationships, "a", "b", "parent")
    /\ HasRecord(relationships, "b", "a", "parent")
    /\ HasCircularFinding("a") /\ HasCircularFinding("b")
    /\ WalkCalls(relationships, "b", {}, WalkDepthOf("b")).finished

(***************************************************************************)
(* The page's 'infer' handler. inferRelationships() queues an update that  *)
(* reads the store when it is applied; validateRelationships() computes    *)
(* its findings at once from the `state` of the render the handler belongs *)
(* to - the store before the event - and queues an update that stores      *)
(* them. Both updates are applied before the next event.                   *)
(***************************************************************************)
handleInferRelationships ==
    /\ relationships' = InferredRelationships(people, relationships)
    /\ validationErrors' = Validate(people, relationships)
    /\ query' = NoQuery
    /\ paths' = <<>>
    /\ labelled' = NoLabel
    /\ relatives' = NoRelatives
    /\ UNCHANGED <<people, rootPersonId>>

(***************************************************************************)
(* The specification of the page: the family of SpecFamily declared by up  *)
(* to MaxPageAdds parent facts, the 'infer' handler, and a validation on   *)
(* its own.                                                                *)
(***************************************************************************)
MaxPageAdds == 3

PageAdd ==
    /\ ~HasInferred
    /\ Len(relationships) < 2 * MaxPageAdds
    /\ \E pr \in FamilyPairs :
          /\ ~HasRecord(relationships, pr[1], pr[2], "parent")
          /\ addRelationship(pr[1], pr[2], "parent")

PageInfer == handleInferRelationships

PageValidate == validateRelationships

InitPage == InitFamily

NextPage == PageAdd \/ PageInfer \/ PageValidate

SpecPage == InitPage /\ [][NextPage]_vars

\* a step that infers new relationships and stores findings
InferHandlerStep ==
    /\ Len(relationships') > Len(relationships)
    /\ validationErrors' # validationErrors

WalkOfGraph(graph, fromId, p) ==
    LET persons == PathPersons(fromId, p)
    IN \A k \in DOMAIN p.segments :
          /\ p.segments[k].relationshipType # Null
          /\ EdgeType(graph, persons[k], persons[k + 1]) = p.segments[k].relationshipType
          /\ p.path[k] = p.segments[k].relationshipType

NoPersonTwice(persons) ==
    \A i \in DOMAIN persons, j \in DOMAIN persons : i # j => persons[i] # persons[j]

\* C25: every path findRelationshipPaths returns for fromId # toId starts with
\* an edge of graph[fromId], continues with edges of the graph from each
\* segment's person to the next that carry the recorded type, ends at toId and
\* passes no person twice, fromId included.
C25_SimpleWalks ==
    (Asked /\ query.fromId # query.toId) =>
        \A i \in DOMAIN paths :
            LET persons == PathPersons(query.fromId, paths[i])
            IN /\ Len(paths[i].segments) >= 1
               /\ WalkOfGraph(relationshipGraph, query.fromId, paths[i])
               /\ persons[Len(persons)] = query.toId
               /\ NoPersonTwice(persons)

\* round the ring a, b, c, d: the direct path a -> d and the three-hop path
\* a -> b -> c -> d
C25_Witness ==
    /\ Asked
    /\ query.fromId = "a" /\ query.toId = "d"
    /\ EdgeType(relationshipGraph, "a", "b") = "parent"
    /\ EdgeType(relationshipGraph, "b", "c") = "parent"
    /\ EdgeType(relationshipGraph, "c", "d") = "parent"
    /\ EdgeType(relationshipGraph, "a", "d") = "parent"
    /\ Len(paths) = 2
    /\ PathPersons("a", paths[1]) = <<"a", "d">>
    /\ PathPersons("a", paths[2]) = <<"a", "b", "c", "d">>

\* everyone reached from the people of S by at most n hops along graph edges
RECURSIVE ReachedWithin(_, _, _)
ReachedWithin(graph, S, n) ==
    IF n <= 0 THEN S
    ELSE LET next == S \cup UNION {{e.id : e \in Range(Neighbors(graph, x))} : x \in S}
         IN IF next = S THEN S ELSE ReachedWithin(graph, next, n - 1)

\* the least number of hops from fromId to a person that some walk reaches
RECURSIVE MinHops(_, _, _, _)
MinHops(graph, fromId, toId, n) ==
    IF toId \in ReachedWithin(graph, {fromId}, n) THEN n
    ELSE MinHops(graph, fromId, toId, n + 1)

\* C26: for fromId # toId, findRelationshipPaths returns a non-empty list
\* exactly when toId is reached from fromId in at most maxDistance hops, and
\* the first path returned has the least hop count of all walks from fromId to
\* toId in the graph.
C26_ShortestFound ==
    (Asked /\ query.fromId # query.toId) =>
        LET within == query.toId \in ReachedWithin(relationshipGraph, {query.fromId},
                                                   query.maxDistance)
        IN /\ (paths # <<>>) <=> within
           /\ within => Len(paths[1].segments) =
                            MinHops(relationshipGraph, query.fromId, query.toId, 0)

\* d is two hops from a through c, the neighbour of a reached last, and three
\* hops through b and c
C26_Witness ==
    /\ Asked
    /\ query.fromId = "a" /\ query.toId = "d" /\ query.maxDistance = 2
    /\ [i \in DOMAIN Neighbors(relationshipGraph, "a") |->
            Neighbors(relationshipGraph, "a")[i].id] = <<"b", "c">>
    /\ EdgeType(relationshipGraph, "b", "c") = "parent"
    /\ EdgeType(relationshipGraph, "c", "d") = "parent"
    /\ Len(paths) = 1
    /\ PathPersons("a", paths[1]) = <<"a", "c", "d">>

\* the person a returned path passes just before its last one
NextToLast(fromId, p) ==
    IF Len(p.segments) <= 1 THEN fromId
    ELSE p.segments[Len(p.segments) - 1].personId

\* the people that have an edge to toId
EdgesTo(graph, toId) == {x \in GraphKeys(graph) : EdgeType(graph, x, toId) # Null}

BoundedSearch ==
    LET expanded == ExpandedBy(relationshipGraph, query.fromId, query.toId,
                               query.maxDistance)
    IN /\ NoPersonTwice(expanded)
       /\ query.toId \notin Range(expanded)
       /\ \A i \in DOMAIN paths, j \in DOMAIN paths :
             i # j => NextToLast(query.fromId, paths[i]) # NextToLast(query.fromId, paths[j])
       /\ \A i \in DOMAIN paths :
             Len(paths[i].segments) >= 1 =>
                 NextToLast(query.fromId, paths[i]) \in Range(expanded)
       /\ Len(paths) <= Cardinality(EdgesTo(relationshipGraph, query.toId))

\* C27 as stated: in every findRelationshipPaths call each person's neighbours
\* are expanded at most once and toId is never marked visited, no two returned
\* paths share their next-to-last person, and there are at most as many
\* returned paths as people with an edge to toId.
C27_BoundedSearchEveryCall == Asked => BoundedSearch

\* C27 amended: in every findRelationshipPaths call with fromId # toId each
\* person's neighbours are expanded at most once and toId is never marked
\* visited, no two returned paths share their next-to-last person, and there
\* are at most as many returned paths as people with an edge to toId; a call
\* with fromId = toId expands nobody and returns the one zero-length path.
C27_BoundedSearchDistinct ==
    /\ (Asked /\ query.fromId # query.toId) => BoundedSearch
    /\ (Asked /\ query.fromId = query.toId) =>
          /\ ExpandedBy(relationshipGraph, query.fromId, query.toId,
                        query.maxDistance) = <<>>
          /\ Len(paths) = 1

\* d has the two parents b and c, both children of a: a, b and c are expanded
\* once each and one path is returned through each parent
C27_Witness ==
    /\ Asked
    /\ query.fromId = "a" /\ query.toId = "d"
    /\ EdgesTo(relationshipGraph, "d") = {"b", "c"}
    /\ ExpandedBy(relationshipGraph, "a", "d", query.maxDistance) = <<"a", "b", "c">>
    /\ Len(paths) = 2
    /\ NextToLast("a", paths[1]) = "b"
    /\ NextToLast("a", paths[2]) = "c"

SelfRelated(isInferred) ==
    \E i \in DOMAIN relationships :
        /\ relationships[i].isInferred = isInferred
        /\ relationships[i].personId = relationships[i].relatedPersonId

\* C28: when no declared relationship relates a person to themselves - also
\* when the same parent fact was added more than once, or two sibling parents
\* share a child - no relationship that inferRelationships adds has personId
\* equal to relatedPersonId.
C28_NoInferredSelfRelation ==
    ~SelfRelated(FALSE) => ~SelfRelated(TRUE)

\* the user declared a relationship between A and B, in either direction
DeclaredBetween(A, B) ==
    \E i \in DOMAIN relationships :
        /\ ~relationships[i].isInferred
        /\ {relationships[i].personId, relationships[i].relatedPersonId} = {A, B}

\* C29: when the user declared a relationship between A and B, the graph built
\* from the output of inferRelationships has at graph[A][B] the type the graph
\* built from its input has there: no inferred relationship between the two
\* replaces the declared type.
C29_DeclaredEdgesSurvive ==
    LET after == buildRelationshipGraph(people,
                                        InferredRelationships(people, relationships))
    IN \A A \in GraphKeys(relationshipGraph), B \in GraphKeys(relationshipGraph) :
          DeclaredBetween(A, B) =>
              EdgeType(after, A, B) = EdgeType(relationshipGraph, A, B)

(***************************************************************************)
(* SpecDelete: the store under addPerson, setRootPerson, addRelationship   *)
(* between people of the store, inferRelationships and deletePerson, with  *)
(* up to MaxStorePeople people and up to MaxDeleteAdds declared parent     *)
(* facts at a time.                                                        *)
(***************************************************************************)
MaxDeleteAdds == 2

DeleteAddPerson == StoreAddPerson

\* the root is chosen once, among the people of the store
DeleteSetRoot ==
    /\ rootPersonId = Null
    /\ \E i \in DOMAIN people : setRootPerson(people[i].id)

\* parent facts between two people of the store, in either direction, each
\* ordered pair once, declared before inference
DeleteAddRelationship ==
    /\ ~HasInferred
    /\ Len(relationships) < 2 * MaxDeleteAdds
    /\ \E i, j \in DOMAIN people :
          /\ i # j
          /\ ~HasRecord(relationships, people[i].id, people[j].id, "parent")
          /\ addRelationship(people[i].id, people[j].id, "parent")

DeleteInfer == inferRelationships

DeleteDeletePerson ==
    \E i \in DOMAIN people : deletePerson(people[i].id)

InitDelete == EmptyStore

NextDelete ==
    \/ DeleteAddPerson
    \/ DeleteSetRoot
    \/ DeleteAddRelationship
    \/ DeleteInfer
    \/ DeleteDeletePerson

SpecDelete == InitDelete /\ [][NextDelete]_vars

\* the relationship names X at one of its ends
Involves(rel, X) == rel.personId = X \/ rel.relatedPersonId = X

\* the store after the step is the store before it without every trace of X
DeletedFrom(X) ==
    /\ ~HasPerson(people', X)
    /\ \A i \in DOMAIN relationships' : ~Involves(relationships'[i], X)
    /\ rootPersonId' = (IF rootPersonId = X THEN Null ELSE rootPersonId)
    /\ people' = SelectSeq(people, LAMBDA person : person.id # X)
    /\ relationships' = SelectSeq(relationships, LAMBDA rel : ~Involves(rel, X))

\* every stored relationship names people of the store only
NoDanglingRelationship ==
    \A i \in DOMAIN relationships :
        /\ relationships[i].personId \in PersonIds
        /\ relationships[i].relatedPersonId \in PersonIds

\* C30: a step that takes a person X out of people (deletePerson(X)) leaves X
\* in no stored relationship, sets rootPersonId to null if it was X and leaves
\* it otherwise, and keeps all other people and all relationships without X,
\* in their order; so under addPerson, addRelationship between people of the
\* store, inferRelationships and deletePerson every stored relationship names
\* people of the store only.
C30_DeleteRemovesEveryTrace ==
    /\ [][\A X \in PersonIds : ~HasPerson(people', X) => DeletedFrom(X)]_vars
    /\ []NoDanglingRelationship

\* p2 has been deleted from a store of three people: p1, p3 and the parent
\* fact between them are left, and p1 is still the root
C30_Witness ==
    /\ PersonIds = {"p1", "p3"}
    /\ rootPersonId = "p1"
    /\ Len(relationships) = 2
    /\ HasRecord(relationships, "p1", "p3", "parent")
    /\ HasRecord(relationships, "p3", "p1", "child")

=============================================================================
